---------------------------- MODULE Spec2Model ----------------------------
(***************************************************************************)
(* A model of mdtraj/formats/pdb/pdbstructure.py: the loader that folds a  *)
(* stream of PDB lines into PdbStructure -> Model -> Chain -> Residue ->   *)
(* Atom -> Location, and the resolver of overflowed atom / residue         *)
(* numbers.                                                                *)
(*                                                                         *)
(* Text fields are tuples of one-character strings, so that int(), the     *)
(* base-16 decoder and the hybrid decoder are computed digit by digit.     *)
(* Objects are identified by their position in the list that owns them     *)
(* (the code never removes an object), so a dictionary such as             *)
(* atoms_by_name maps a key to an index of Residue.atoms.                  *)
(***************************************************************************)
EXTENDS Integers, Sequences, FiniteSets, TLC

VARIABLES
    models,                 \* PdbStructure.models, a sequence of Model records
    models_by_number,       \* PdbStructure.models_by_number: number -> index of models
    atom_num_nondec_mode,   \* PdbStructure._atom_num_nondec_mode
    residue_num_nondec_mode,\* PdbStructure._residue_num_nondec_mode
    next_atom_number,       \* PdbStructure._next_atom_number
    next_residue_number,    \* PdbStructure._next_residue_number
    unit_cell,              \* PdbStructure._unit_cell_lengths / _unit_cell_angles
    load_all_models,        \* PdbStructure.load_all_models
    state,                  \* the local `state` of PdbStructure._load
    pdb_line,               \* the line the loop of _load consumed last
    last_atom,              \* the Atom built from that line (NoAtom if none was built)
    diags,                  \* the warnings.warn calls made while handling that line
    nread,                  \* how many lines were consumed
    pc,                     \* "loading", "done" (after _finalize), "aborted" (exception),
                            \* "written" or "write_failed" (after write)
    nlines,                 \* how many lines the input stream holds
    output,                 \* the lines write printed to output_stream
    yielded,                \* what the traversal of the loaded structure yielded
    decoded                 \* a token handed to a hybrid decoder, and what it returned

vars == << models, models_by_number, atom_num_nondec_mode, residue_num_nondec_mode,
           next_atom_number, next_residue_number, unit_cell, load_all_models,
           state, pdb_line, last_atom, diags, nread, pc, nlines, output, yielded, decoded >>

(***************************************************************************)
(* Bounds of the model.                                                    *)
(***************************************************************************)
MaxLines == 4
MaxBlockLines == 7

(***************************************************************************)
(* Characters and Python's int(s, base).                                   *)
(***************************************************************************)
LowerDigits ==
    << "0","1","2","3","4","5","6","7","8","9","a","b","c","d","e","f","g","h","i",
       "j","k","l","m","n","o","p","q","r","s","t","u","v","w","x","y","z" >>

UpperDigits ==
    << "0","1","2","3","4","5","6","7","8","9","A","B","C","D","E","F","G","H","I",
       "J","K","L","M","N","O","P","Q","R","S","T","U","V","W","X","Y","Z" >>

\* 65 <= ord(c) <= 90
IsUpperLetter(c) == \E i \in 11..36 : UpperDigits[i] = c

IsDigit(c, base) == \E i \in 1..base : LowerDigits[i] = c \/ UpperDigits[i] = c

DigitVal(c) == (CHOOSE i \in 1..36 : LowerDigits[i] = c \/ UpperDigits[i] = c) - 1

RECURSIVE LStrip(_)
LStrip(s) == IF Len(s) > 0 /\ s[1] = " " THEN LStrip(Tail(s)) ELSE s

RECURSIVE RStrip(_)
RStrip(s) == IF Len(s) > 0 /\ s[Len(s)] = " " THEN RStrip(SubSeq(s, 1, Len(s) - 1)) ELSE s

Strip(s) == RStrip(LStrip(s))

RECURSIVE DigitsVal(_, _)
DigitsVal(d, base) ==
    IF Len(d) = 0 THEN 0
    ELSE DigitsVal(SubSeq(d, 1, Len(d) - 1), base) * base + DigitVal(d[Len(d)])

\* An exception raised in place of a value: exc is its type
ValueError == [ok |-> FALSE, val |-> 0, exc |-> "ValueError"]

TypeError == [ok |-> FALSE, val |-> 0, exc |-> "TypeError"]

OverflowError == [ok |-> FALSE, val |-> 0, exc |-> "OverflowError"]

Value(n) == [ok |-> TRUE, val |-> n]

\* int() of a sign and a digit string
PyIntDigits(sign, d, base) ==
    IF Len(d) > 0 /\ \A i \in 1..Len(d) : IsDigit(d[i], base)
    THEN Value(IF sign = "-" THEN 0 - DigitsVal(d, base) ELSE DigitsVal(d, base))
    ELSE ValueError

\* int() of a string without surrounding blanks
PyIntStripped(t, base) ==
    IF Len(t) > 0 /\ t[1] \in {"-", "+"} THEN PyIntDigits(t[1], Tail(t), base)
    ELSE PyIntDigits("+", t, base)

\* int(s, base) for base 10, 16 and 36: surrounding blanks are stripped, one sign
\* is accepted, every remaining character must be a digit of the base.  The
\* fields of the model hold no "_" and no "0x" prefix.
PyInt(s, base) == PyIntStripped(Strip(s), base)

(***************************************************************************)
(* The resolver of atom and residue numbers.                               *)
(***************************************************************************)
AtomCeiling == 99999
ResidueCeiling == 9999

HexAtomKey == << "1","8","6","a","0" >>
ChimeraAtomKey == << "A","0","0","0","0" >>
OverflowAtomKey == << "*","*","*","*","*" >>

HexResidueKey == << "2","7","1","0" >>
ChimeraResidueKey == << "A","0","0","0" >>
OverflowResidueKey == << "*","*","*","*" >>

\* _atom_num_initial_nondecimal_functions[num_str]; "none" stands for KeyError
atom_num_initial_nondecimal_functions(num_str) ==
    IF num_str = HexAtomKey THEN "hex"
    ELSE IF num_str = ChimeraAtomKey THEN "chimera"
    ELSE IF num_str = OverflowAtomKey THEN "overflow"
    ELSE "none"

residue_num_initial_nondecimal_functions(num_str) ==
    IF num_str = HexResidueKey THEN "hex"
    ELSE IF num_str = ChimeraResidueKey THEN "chimera"
    ELSE IF num_str = OverflowResidueKey THEN "overflow"
    ELSE "none"

check_overflow_eligibility(num_str, str_type) ==
    \/ str_type = "atom" /\ atom_num_initial_nondecimal_functions(num_str) # "none"
    \/ str_type = "residue" /\ residue_num_initial_nondecimal_functions(num_str) # "none"
    \/ IsUpperLetter(num_str[1])

\* lambda s: int(s, base=16)
HexDecode(s) == PyInt(s, 16)

\* 10**k
RECURSIVE Pow10(_)
Pow10(k) == IF k = 0 THEN 1 ELSE 10 * Pow10(k - 1)

\* ChimeraCombine reading the leading character as a base-36 place, not a
\* multiple of 10**k
ChimeraCombinePositional(high, low, k) ==
    IF high.ok /\ low.ok
    THEN Value(high.val * (IF k = 3 THEN 46656 ELSE 1679616) + low.val)
    ELSE ValueError

\* high * 10**k + low, or the ValueError of either int()
ChimeraCombine(high, low, k) ==
    IF high.ok /\ low.ok THEN Value(high.val * Pow10(k) + low.val) ELSE ValueError

\* ChimeraDecode reading the leading character in base 10
ChimeraDecodeHighDecimal(s, k) ==
    ChimeraCombine(PyInt(<< s[1] >>, 10), PyInt(Tail(s), 36), k)

\* lambda s: int(s[0], base=36) * 10**k + int(s[1:], base=36)
ChimeraDecode(s, k) == ChimeraCombine(PyInt(<< s[1] >>, 36), PyInt(Tail(s), 36), k)

\* AtomModeApply with the "hex" decoder reading base 10
AtomModeApplyHexAsDecimal(mode, num_str, next_atom) ==
    CASE mode = "hex"      -> PyInt(num_str, 10)
      [] mode = "chimera"  -> ChimeraDecode(num_str, 4)
      [] mode = "overflow" -> Value(next_atom)
      [] OTHER             -> TypeError

\* AtomModeApply with an "overflow" decoder that reads the token as a decimal
AtomModeApplyOverflowReadsToken(mode, num_str, next_atom) ==
    CASE mode = "hex"      -> HexDecode(num_str)
      [] mode = "chimera"  -> ChimeraDecode(num_str, 4)
      [] mode = "overflow" -> PyInt(num_str, 10)
      [] OTHER             -> TypeError

\* The decoder a locked atom mode names, applied to num_str.  "none" is the
\* call of None, a TypeError; the "overflow" decoder returns _next_atom_number.
AtomModeApply(mode, num_str, next_atom) ==
    CASE mode = "hex"      -> HexDecode(num_str)
      [] mode = "chimera"  -> ChimeraDecode(num_str, 4)
      [] mode = "overflow" -> Value(next_atom)
      [] OTHER             -> TypeError

\* except (AttributeError, ValueError, OverflowError, KeyError) of the try block
FirstTryCaught == {"AttributeError", "ValueError", "OverflowError", "KeyError"}

\* SecondTryCaught without TypeError
SecondTryCaughtNoTypeError == {"ValueError", "KeyError"}

\* except (ValueError, KeyError, TypeError) of the second try
SecondTryCaught == {"ValueError", "KeyError", "TypeError"}

\* The exception left the resolver: mode is the mode the structure is left with
Raised(mode) == [val |-> 0, mode |-> mode, warn |-> FALSE, raised |-> TRUE]

\* The try block of _read_atom_number: the value returned, or the exception
AtomFirstTry(num_str, mode, next_atom) ==
    IF mode # "none" THEN AtomModeApply(mode, num_str, next_atom)
    ELSE IF next_atom > AtomCeiling /\ check_overflow_eligibility(num_str, "atom")
    THEN OverflowError
    ELSE PyInt(num_str, 10)

\* The mode the except block of a _read_*_number function works with: a locked
\* mode stays, else the table entry of num_str, else the hybrid decoder for a
\* leading capital letter, else None
GuessMode(mode, table, num_str) ==
    IF mode # "none" THEN mode
    ELSE IF table # "none" THEN table
    ELSE IF IsUpperLetter(num_str[1]) THEN "chimera"
    ELSE "none"

\* AtomSecondTry that leaves the locked mode when the decoder fails
AtomSecondTryKeepsMode(second, mode1, next_atom) ==
    IF second.ok THEN [val |-> second.val, mode |-> mode1, warn |-> FALSE, raised |-> FALSE]
    ELSE IF second.exc \notin SecondTryCaught THEN Raised(mode1)
    ELSE [val |-> next_atom, mode |-> mode1, warn |-> TRUE, raised |-> FALSE]

\* The second try of the except block: its value, or the switch to the
\* sequential guess with a warning
AtomSecondTry(second, mode1, next_atom) ==
    IF second.ok THEN [val |-> second.val, mode |-> mode1, warn |-> FALSE, raised |-> FALSE]
    ELSE IF second.exc \notin SecondTryCaught THEN Raised(mode1)
    ELSE [val |-> next_atom, mode |-> "overflow", warn |-> TRUE, raised |-> FALSE]

\* The except block of _read_atom_number with a pdbstructure
AtomExcept(num_str, mode1, next_atom) ==
    AtomSecondTry(AtomModeApply(mode1, num_str, next_atom), mode1, next_atom)

\* The value of the try block, or its exception: caught by the except block,
\* or leaving the function
AtomResolved(first, num_str, mode, next_atom) ==
    IF first.ok THEN [val |-> first.val, mode |-> mode, warn |-> FALSE, raised |-> FALSE]
    ELSE IF first.exc \notin FirstTryCaught THEN Raised(mode)
    ELSE AtomExcept(num_str,
                    GuessMode(mode, atom_num_initial_nondecimal_functions(num_str), num_str),
                    next_atom)

\* _read_atom_number(num_str, pdbstructure) with a pdbstructure:
\* [val, mode, warn, raised] = the number returned, the mode left in the
\* structure, whether warnings.warn was called, and whether an exception left
\* the function.
read_atom_number(num_str, mode, next_atom) ==
    AtomResolved(AtomFirstTry(num_str, mode, next_atom), num_str, mode, next_atom)

\* int(num_str), or 0 for a ValueError
IntOrZero(r) == IF r.ok THEN r.val ELSE 0

\* _read_atom_number(num_str) with pdbstructure = None
read_atom_number_standalone(num_str) == IntOrZero(PyInt(num_str, 10))

(***************************************************************************)
(* The tree.                                                               *)
(***************************************************************************)
NoAtom == [kind |-> "none"]

\* Residue.name_with_spaces: the name of the primary location
ResidueName(res) == res.locations[res.primary_location_id]

\* Residue(name, number, insertion_code, primary_alternate_location_indicator)
NewResidue(name, number, insertion_code, alt_loc) ==
    [ primary_location_id |-> alt_loc,
      locations           |-> (alt_loc :> name),
      number              |-> number,
      insertion_code      |-> insertion_code,
      atoms               |-> << >>,
      atoms_by_name       |-> << >>,
      is_first_in_chain   |-> FALSE,
      is_final_in_chain   |-> FALSE ]

\* Chain(chain_id)
NewChain(chain_id) ==
    [ chain_id              |-> chain_id,
      residues              |-> << >>,
      has_ter_record        |-> FALSE,
      residues_by_num_icode |-> << >>,
      residues_by_number    |-> << >> ]

\* Model(model_number)
NewModel(number) ==
    [ number |-> number, chains |-> << >>, chains_by_id |-> << >>, connects |-> << >> ]

\* alt_loc in atom.locations
HasLocation(atom, alt_loc) == \E i \in 1..Len(atom.locations) : atom.locations[i].alt_loc = alt_loc

\* The else branch of _overflow_residue_check
OverflowResidueGuess(currentRes, next_residue, name, resname) ==
    IF ResidueName(currentRes) # resname THEN next_residue
    ELSE IF name \in DOMAIN currentRes.atoms_by_name THEN next_residue
    ELSE currentRes.number

\* _overflow_residue_check(num_str, pdbstructure, curr_atom); name and resname are
\* curr_atom.name_with_spaces and curr_atom.residue_name_with_spaces
overflow_residue_check(mods, next_residue, name, resname) ==
    IF \/ Len(mods) = 0
       \/ Len(mods[Len(mods)].chains) = 0
       \/ Len(mods[Len(mods)].chains[Len(mods[Len(mods)].chains)].residues) = 0
    THEN next_residue
    ELSE OverflowResidueGuess(
             mods[Len(mods)].chains[Len(mods[Len(mods)].chains)].residues[
                 Len(mods[Len(mods)].chains[Len(mods[Len(mods)].chains)].residues)],
             next_residue, name, resname)

ResidueModeApply(mode, num_str, mods, next_residue, name, resname) ==
    CASE mode = "hex"      -> HexDecode(num_str)
      [] mode = "chimera"  -> ChimeraDecode(num_str, 3)
      [] mode = "overflow" -> Value(overflow_residue_check(mods, next_residue, name, resname))
      [] OTHER             -> TypeError

\* ResidueFirstTry without the comparison of the counter with the ceiling
ResidueFirstTryNoCeiling(num_str, mode, mods, next_residue, name, resname) ==
    IF mode # "none"
    THEN ResidueModeApply(mode, num_str, mods, next_residue, name, resname)
    ELSE IF check_overflow_eligibility(num_str, "residue")
    THEN OverflowError
    ELSE PyInt(num_str, 10)

\* The try block of _read_residue_number: the value returned, or the exception
ResidueFirstTry(num_str, mode, mods, next_residue, name, resname) ==
    IF mode # "none"
    THEN ResidueModeApply(mode, num_str, mods, next_residue, name, resname)
    ELSE IF next_residue > ResidueCeiling /\ check_overflow_eligibility(num_str, "residue")
    THEN OverflowError
    ELSE PyInt(num_str, 10)

\* The second try of the except block: its value, or the switch to the
\* content-aware guess with a warning
ResidueSecondTry(second, mode1, guess) ==
    IF second.ok THEN [val |-> second.val, mode |-> mode1, warn |-> FALSE, raised |-> FALSE]
    ELSE IF second.exc \notin SecondTryCaught THEN Raised(mode1)
    ELSE [val |-> guess, mode |-> "overflow", warn |-> TRUE, raised |-> FALSE]

\* The except block of _read_residue_number with a pdbstructure
ResidueExcept(num_str, mode1, mods, next_residue, name, resname) ==
    ResidueSecondTry(ResidueModeApply(mode1, num_str, mods, next_residue, name, resname),
                     mode1, overflow_residue_check(mods, next_residue, name, resname))

ResidueResolved(first, num_str, mode, mods, next_residue, name, resname) ==
    IF first.ok THEN [val |-> first.val, mode |-> mode, warn |-> FALSE, raised |-> FALSE]
    ELSE IF first.exc \notin FirstTryCaught THEN Raised(mode)
    ELSE ResidueExcept(num_str,
                       GuessMode(mode, residue_num_initial_nondecimal_functions(num_str), num_str),
                       mods, next_residue, name, resname)

\* _read_residue_number(num_str, pdbstructure, curr_atom) with a pdbstructure
read_residue_number(num_str, mode, mods, next_residue, name, resname) ==
    ResidueResolved(ResidueFirstTry(num_str, mode, mods, next_residue, name, resname),
                    num_str, mode, mods, next_residue, name, resname)

\* _read_residue_number(num_str) with pdbstructure = None
read_residue_number_standalone(num_str) == IntOrZero(PyInt(num_str, 10))

(***************************************************************************)
(* Residue, Chain, Model: adding an atom.                                  *)
(***************************************************************************)
\* The keys Residue._add_atom stores an atom under: atom.name, atom.name_with_spaces
AtomKeys(atom) == { Strip(atom.name_with_spaces), atom.name_with_spaces }

\* The two assert statements of Residue._add_atom
ResidueAssert(res, atom) ==
    /\ atom.residue_number = res.number
    /\ atom.insertion_code = res.insertion_code

\* Residue._add_atom, lines 794-799: the name variant of a new alternate location
ResidueAddLocation(res, atom) ==
    IF atom.default_location_id \in DOMAIN res.locations THEN res
    ELSE [res EXCEPT !.locations =
             @ @@ (atom.default_location_id :> atom.residue_name_with_spaces)]

\* Residue._add_atom, lines 820-824: actually use new atom
ResidueAppendAtom(res, atom) ==
    [res EXCEPT
       !.atoms = Append(@, atom),
       !.atoms_by_name = [k \in AtomKeys(atom) |-> Len(res.atoms) + 1] @@ @]

\* Residue._add_atom, lines 816-818: another position of an existing atom
ResidueMergeAtom(res, atom) ==
    [res EXCEPT !.atoms[res.atoms_by_name[atom.name_with_spaces]].locations =
                    @ \o atom.locations]

\* Whether Residue._add_atom folds the atom into an Atom the Residue holds
ResidueMerges(res, atom) ==
    /\ atom.name_with_spaces \in DOMAIN res.atoms_by_name
    /\ ~HasLocation(res.atoms[res.atoms_by_name[atom.name_with_spaces]],
                    atom.default_location_id)

\* Residue._add_atom without the `return` of the merge branch
ResidueAddAtomNoReturn(res, atom) ==
    IF ResidueMerges(res, atom)
    THEN ResidueAppendAtom(ResidueMergeAtom(ResidueAddLocation(res, atom), atom), atom)
    ELSE ResidueAppendAtom(ResidueAddLocation(res, atom), atom)

\* Residue._add_atom(atom)
ResidueAddAtom(res, atom) ==
    IF ResidueMerges(res, atom)
    THEN ResidueMergeAtom(ResidueAddLocation(res, atom), atom)
    ELSE ResidueAppendAtom(ResidueAddLocation(res, atom), atom)

\* Chain._add_residue(residue), after the first-in-chain flag is set
ChainAppendResidue(chain, r) ==
    [chain EXCEPT
       !.residues = Append(@, r),
       !.residues_by_num_icode =
           IF << r.number, r.insertion_code >> \in DOMAIN @ THEN @
           ELSE @ @@ (<< r.number, r.insertion_code >> :> (Len(chain.residues) + 1)),
       !.residues_by_number =
           IF r.number \in DOMAIN @ THEN @ ELSE @ @@ (r.number :> (Len(chain.residues) + 1))]

\* Chain._add_residue(residue)
ChainAddResidue(chain, residue) ==
    ChainAppendResidue(chain,
        IF Len(chain.residues) = 0 THEN [residue EXCEPT !.is_first_in_chain = TRUE]
        ELSE residue)

\* Chain._add_atom taking every residue-name change for a point mutation
ChainAddAtomCaseNoNameBranch(chain, atom) ==
    IF Len(chain.residues) = 0 THEN "first"
    ELSE LET cur == chain.residues[Len(chain.residues)]
         IN  IF cur.number # atom.residue_number THEN "number"
             ELSE IF cur.insertion_code # atom.insertion_code THEN "icode"
             ELSE IF ResidueName(cur) = atom.residue_name_with_spaces THEN "same"
             ELSE "mutation"

\* Chain._add_atom without the alternate-location test of the name change
ChainAddAtomCaseNoMutationBranch(chain, atom) ==
    IF Len(chain.residues) = 0 THEN "first"
    ELSE LET cur == chain.residues[Len(chain.residues)]
         IN  IF cur.number # atom.residue_number THEN "number"
             ELSE IF cur.insertion_code # atom.insertion_code THEN "icode"
             ELSE IF ResidueName(cur) = atom.residue_name_with_spaces THEN "same"
             ELSE "name"

\* ChainAddAtomCase without the elif of the insertion code
ChainAddAtomCaseNoIcodeBranch(chain, atom) ==
    IF Len(chain.residues) = 0 THEN "first"
    ELSE LET cur == chain.residues[Len(chain.residues)]
         IN  IF cur.number # atom.residue_number THEN "number"
             ELSE IF ResidueName(cur) = atom.residue_name_with_spaces THEN "same"
             ELSE IF atom.default_location_id # " " THEN "mutation"
             ELSE "name"

\* Which branch of Chain._add_atom the atom takes
ChainAddAtomCase(chain, atom) ==
    IF Len(chain.residues) = 0 THEN "first"
    ELSE LET cur == chain.residues[Len(chain.residues)]
         IN  IF cur.number # atom.residue_number THEN "number"
             ELSE IF cur.insertion_code # atom.insertion_code THEN "icode"
             ELSE IF ResidueName(cur) = atom.residue_name_with_spaces THEN "same"
             ELSE IF atom.default_location_id # " " THEN "mutation"
             ELSE "name"

\* Chain._add_atom, line 699: self._current_residue._add_atom(atom); a failed
\* assert leaves Residue._add_atom after lines 794-799
ChainPlaceAtom(chain1, atom, warn) ==
    [ chain |-> [chain1 EXCEPT !.residues[Len(chain1.residues)] =
                    IF ResidueAssert(@, atom) THEN ResidueAddAtom(@, atom)
                    ELSE ResidueAddLocation(@, atom)],
      warn  |-> warn,
      ok    |-> ResidueAssert(chain1.residues[Len(chain1.residues)], atom) ]

\* Chain._add_atom once its branch is known
ChainAddAtomBranch(chain, atom, case) ==
    ChainPlaceAtom(
        IF case \in {"same", "mutation"} THEN chain
        ELSE ChainAddResidue(chain,
                 NewResidue(atom.residue_name_with_spaces, atom.residue_number,
                            atom.insertion_code, atom.default_location_id)),
        atom, case = "name")

\* Chain._add_atom(atom): [chain, warn, ok]; warn is the same-number warning,
\* ok is FALSE when an assert of Residue._add_atom fails
ChainAddAtom(chain, atom) == ChainAddAtomBranch(chain, atom, ChainAddAtomCase(chain, atom))

\* Model._add_chain(chain)
ModelAddChain(model, chain) ==
    [model EXCEPT
       !.chains = Append(@, chain),
       !.chains_by_id = IF chain.chain_id \in DOMAIN @ THEN @
                        ELSE @ @@ (chain.chain_id :> (Len(model.chains) + 1))]

\* ModelOpensChain comparing the chain id with the first Chain of the Model
ModelOpensChainFirst(model, atom) ==
    \/ Len(model.chains) = 0
    \/ model.chains[1].chain_id # atom.chain_id
    \/ model.chains[Len(model.chains)].has_ter_record

\* ModelOpensChain without the elif of the terminator flag
ModelOpensChainNoTer(model, atom) ==
    \/ Len(model.chains) = 0
    \/ model.chains[Len(model.chains)].chain_id # atom.chain_id

\* Whether Model._add_atom opens a new Chain for the atom
ModelOpensChain(model, atom) ==
    \/ Len(model.chains) = 0
    \/ model.chains[Len(model.chains)].chain_id # atom.chain_id
    \/ model.chains[Len(model.chains)].has_ter_record

\* Model._add_atom, line 575, stored back into the Model
ModelWithChain(model1, r) ==
    [ model |-> [model1 EXCEPT !.chains[Len(model1.chains)] = r.chain],
      warn  |-> r.warn,
      ok    |-> r.ok ]

\* Model._add_atom, line 575: self._current_chain._add_atom(atom)
ModelPlaceAtom(model1, atom) ==
    ModelWithChain(model1, ChainAddAtom(model1.chains[Len(model1.chains)], atom))

\* Model._add_atom(atom): [model, warn, ok]
ModelAddAtom(model, atom) ==
    ModelPlaceAtom(IF ModelOpensChain(model, atom)
                   THEN ModelAddChain(model, NewChain(atom.chain_id)) ELSE model,
                   atom)

(***************************************************************************)
(* _finalize: first / last flags.                                          *)
(***************************************************************************)
\* Residue._finalize()
ResidueFinalize(res) ==
    [res EXCEPT !.atoms =
        [i \in 1..Len(res.atoms) |->
            [res.atoms[i] EXCEPT
               !.is_first_atom_in_chain    = IF i = 1 THEN res.is_first_in_chain ELSE @,
               !.is_final_atom_in_chain    = IF i = Len(res.atoms) THEN res.is_final_in_chain ELSE @,
               !.is_first_residue_in_chain = res.is_first_in_chain,
               !.is_final_residue_in_chain = res.is_final_in_chain]]]

\* Chain._finalize(), lines 763-764
ChainFlagEnds(chain) ==
    [chain EXCEPT !.residues =
        [i \in 1..Len(chain.residues) |->
            [chain.residues[i] EXCEPT
               !.is_first_in_chain = IF i = 1 THEN TRUE ELSE @,
               !.is_final_in_chain = IF i = Len(chain.residues) THEN TRUE ELSE @]]]

\* Chain._finalize(), lines 765-766
ChainFinalizeResidues(chain) ==
    [chain EXCEPT !.residues =
        [i \in 1..Len(chain.residues) |-> ResidueFinalize(chain.residues[i])]]

\* Chain._finalize(); a Chain always holds a Residue (Model._add_atom fills it
\* as soon as it is created)
ChainFinalize(chain) == ChainFinalizeResidues(ChainFlagEnds(chain))

\* Chain._add_ter_record()
ChainAddTerRecord(chain) == ChainFinalize([chain EXCEPT !.has_ter_record = TRUE])

\* Model._finalize()
ModelFinalize(model) ==
    [model EXCEPT !.chains = [i \in 1..Len(model.chains) |-> ChainFinalize(model.chains[i])]]

\* PdbStructure._finalize()
StructureFinalize(mods) == [i \in 1..Len(mods) |-> ModelFinalize(mods[i])]

(***************************************************************************)
(* Atom(pdb_line, pdbstructure): the fields of a coordinate line.          *)
(*                                                                         *)
(* A coordinate line is a record of its fixed-column fields:               *)
(*   serial [6:11], name [12:16], altloc [16], resname [17:21], chain [21],*)
(*   resseq [22:26], icode [26], xyz [30:54], charge [78:80].              *)
(* xyz is "bad" when float() fails on a coordinate.                        *)
(***************************************************************************)
RECURSIVE Reverse(_)
Reverse(s) == IF Len(s) = 0 THEN << >> ELSE Append(Reverse(Tail(s)), s[1])

\* The residue name of a line: columns 17-19, plus column 20 if it is not blank.
\* ok is FALSE for "Misaligned residue name".
ParseResidueName(field) ==
    LET three == SubSeq(field, 1, 3)
    IN  IF field[4] = " " THEN [ok |-> TRUE, name |-> three]
        ELSE IF Len(Strip(three)) # 3 THEN [ok |-> FALSE, name |-> three]
        ELSE [ok |-> TRUE, name |-> field]

\* formal_charge from the two attempts at the stripped field
ChargeTried(charge_string, asis, reversed) ==
    IF Len(charge_string) = 0 THEN [charge |-> ValueError, warn |-> FALSE]
    ELSE IF asis.ok THEN [charge |-> asis, warn |-> FALSE]
    ELSE IF reversed.ok THEN [charge |-> reversed, warn |-> FALSE]
    ELSE [charge |-> ValueError, warn |-> TRUE]

ChargeOf(charge_string) ==
    ChargeTried(charge_string, PyInt(charge_string, 10), PyInt(Reverse(charge_string), 10))

\* formal_charge: int(charge_string), else int(charge_string[::-1]), else None
\* with a warning; None (ok = FALSE) without a warning for a blank field
ParseCharge(field) == ChargeOf(Strip(field))

Warnings(ra, rr, rc) ==
    (IF ra THEN << "guess_atom_number" >> ELSE << >>)
    \o (IF rr THEN << "guess_residue_number" >> ELSE << >>)
    \o (IF rc THEN << "charge" >> ELSE << >>)

\* The Atom of a line whose fields are resolved: ra, rr the resolved serial and
\* residue numbers, resname the residue name, rc the charge
AtomBuilt(line, ra, resname, rr, rc) ==
    IF ra.raised \/ ~resname.ok
    THEN [ error |-> TRUE, atom |-> NoAtom, atom_mode |-> ra.mode,
           residue_mode |-> rr.mode, warnings |-> Warnings(ra.warn, FALSE, FALSE) ]
    ELSE IF rr.raised \/ line.xyz = "bad"
    THEN [ error |-> TRUE, atom |-> NoAtom, atom_mode |-> ra.mode,
           residue_mode |-> rr.mode, warnings |-> Warnings(ra.warn, rr.warn, FALSE) ]
    ELSE [ error |-> FALSE, atom_mode |-> ra.mode, residue_mode |-> rr.mode,
           warnings |-> Warnings(ra.warn, rr.warn, rc.warn),
           atom |-> [ kind                      |-> "atom",
                      record_name               |-> line.record_name,
                      serial_number             |-> ra.val,
                      name_with_spaces          |-> line.name,
                      residue_name_with_spaces  |-> resname.name,
                      chain_id                  |-> line.chain,
                      residue_number            |-> rr.val,
                      insertion_code            |-> line.icode,
                      locations                 |-> << [ alt_loc      |-> line.altloc,
                                                         position     |-> line.xyz,
                                                         residue_name |-> resname.name ] >>,
                      default_location_id       |-> line.altloc,
                      formal_charge             |-> rc.charge,
                      model_number              |-> -1,
                      is_first_atom_in_chain    |-> FALSE,
                      is_final_atom_in_chain    |-> FALSE,
                      is_first_residue_in_chain |-> FALSE,
                      is_final_residue_in_chain |-> FALSE ] ]

\* Atom.__init__ from the residue name on; an exception of _read_atom_number
\* or a misaligned residue name leaves it before the residue number is read
AtomAfterSerial(line, ra, resname, mods, residue_mode, next_residue) ==
    AtomBuilt(line, ra, resname,
              IF ~ra.raised /\ resname.ok
              THEN read_residue_number(line.resseq, residue_mode, mods, next_residue,
                                       line.name, resname.name)
              ELSE [val |-> 0, mode |-> residue_mode, warn |-> FALSE, raised |-> FALSE],
              ParseCharge(line.charge))

\* Atom.__init__(pdb_line, pdbstructure) run against the structure (mods, modes,
\* counters): the Atom, the modes it leaves, the warnings, and whether an
\* exception left the constructor (error).
AtomInit(line, mods, atom_mode, residue_mode, next_atom, next_residue) ==
    AtomAfterSerial(line, read_atom_number(line.serial, atom_mode, next_atom),
                    ParseResidueName(line.resname), mods, residue_mode, next_residue)

(***************************************************************************)
(* PdbStructure: the state after construction and the handlers of _load.   *)
(***************************************************************************)
NoLine == [kind |-> "none"]

\* AddModel putting the new Model in front of the list
AddModelFront(mods, number) == << NewModel(number) >> \o mods

\* PdbStructure._add_model(model), the models list
AddModel(mods, number) == Append(mods, NewModel(number))

\* PdbStructure._add_model(model), the models_by_number dictionary
AddModelByNumber(by_number, mods, number) ==
    IF number \in DOMAIN by_number THEN by_number
    ELSE by_number @@ (number :> (Len(mods) + 1))

\* NextModelNumber without the count: every MODEL line declares number 0
NextModelNumberZero(mods) == 0

\* new_number of the MODEL branch of _load
NextModelNumber(mods) == IF Len(mods) = 0 THEN 0 ELSE mods[Len(mods)].number + 1

\* No traversal was run yet
NotYielded == [atoms |-> << >>, positions |-> << >>, done |-> FALSE]

\* No token was handed to a decoder of the tables
NotDecoded == [done |-> FALSE]

\* PdbStructure.__init__ up to the loop of _load
Constructed ==
    /\ models = << >>
    /\ models_by_number = << >>
    /\ atom_num_nondec_mode = "none"
    /\ residue_num_nondec_mode = "none"
    /\ next_atom_number = 1
    /\ next_residue_number = 1
    /\ unit_cell = "None"
    /\ load_all_models \in BOOLEAN
    /\ state = "None"
    /\ pdb_line = NoLine
    /\ last_atom = NoAtom
    /\ diags = << >>
    /\ nread = 0
    /\ pc = "loading"
    /\ output = << >>
    /\ yielded = NotYielded

\* The structure is constructed on an input stream of MaxLines lines
Init == Constructed /\ nlines = MaxLines /\ decoded = NotDecoded

\* The structure is constructed on an input stream of MaxBlockLines lines
InitBlocks == Constructed /\ nlines = MaxBlockLines /\ decoded = NotDecoded

\* The loop of _load takes the next line
Consume(line) ==
    /\ pc = "loading"
    /\ nread < nlines
    /\ nread' = nread + 1
    /\ pdb_line' = line
    /\ UNCHANGED << nlines, output, yielded, decoded >>

\* AtomLineStored with counters that count the records read
AtomLineStoredCountsRecords(mods2, atom, r) ==
    /\ models' = [mods2 EXCEPT ![Len(mods2)] = r.model]
    /\ last_atom' = atom
    /\ pc' = IF r.ok THEN "loading" ELSE "aborted"
    /\ next_atom_number' = next_atom_number + 1
    /\ next_residue_number' = next_residue_number + 1

\* PdbStructure._add_atom done: r is what Model._add_atom returned
AtomLineStored(mods2, atom, r) ==
    /\ models' = [mods2 EXCEPT ![Len(mods2)] = r.model]
    /\ last_atom' = atom
    /\ pc' = IF r.ok THEN "loading" ELSE "aborted"
    /\ next_atom_number' = atom.serial_number + 1
    /\ next_residue_number' = atom.residue_number + 1

\* PdbStructure._add_atom(atom), lines 533-535
AtomLineAdd(mods2, atom) == AtomLineStored(mods2, atom, ModelAddAtom(mods2[Len(mods2)], atom))

\* The diagnostics of a coordinate line: those of Atom.__init__, then the
\* same-number warning of Chain._add_atom
AtomLineWarnings(a, mods2, atom) ==
    a.warnings \o (IF ModelAddAtom(mods2[Len(mods2)], atom).warn
                   THEN << "same_number" >> ELSE << >>)

\* PdbStructure._add_atom(atom), lines 531-533, for the Atom a.atom
AtomLineInStructure(a, mods2) ==
    /\ AtomLineAdd(mods2, [a.atom EXCEPT !.model_number = mods2[Len(mods2)].number])
    /\ diags' = AtomLineWarnings(a, mods2,
                                 [a.atom EXCEPT !.model_number = mods2[Len(mods2)].number])

\* Line 398 with the models (mods1, byn1) line 396 left: a is Atom(pdb_line, self)
AtomLineParsed(a, mods1, byn1) ==
    /\ state' = "None"
    /\ atom_num_nondec_mode' = a.atom_mode
    /\ residue_num_nondec_mode' = a.residue_mode
    /\ IF a.error
       THEN /\ models' = mods1
            /\ models_by_number' = byn1
            /\ last_atom' = NoAtom
            /\ diags' = a.warnings
            /\ pc' = "aborted"
            /\ UNCHANGED << next_atom_number, next_residue_number >>
       ELSE /\ AtomLineInStructure(a, IF Len(mods1) = 0 THEN AddModel(mods1, 0) ELSE mods1)
            /\ models_by_number' = IF Len(mods1) = 0 THEN AddModelByNumber(byn1, mods1, 0)
                                   ELSE byn1

\* Line 398 with the models (mods1, byn1) line 396 left
AtomLineInModels(line, mods1, byn1) ==
    AtomLineParsed(AtomInit(line, mods1, atom_num_nondec_mode, residue_num_nondec_mode,
                            next_atom_number, next_residue_number),
                   mods1, byn1)

\* An ATOM or HETATM line
AtomLine(line) ==
    /\ Consume(line)
    /\ line.kind = "ATOM"
    /\ IF state = "NEW_MODEL"
       THEN AtomLineInModels(line,
                AddModel(models, models[Len(models)].number + 1),
                AddModelByNumber(models_by_number, models, models[Len(models)].number + 1))
       ELSE AtomLineInModels(line, models, models_by_number)
    /\ UNCHANGED << unit_cell, load_all_models >>

\* ModelLine taking the number of the new Model from the number field of the line
ModelLineDeclaredNumber(line) ==
    /\ Consume(line)
    /\ line.kind = "MODEL"
    /\ models' = AddModel(models, line.number)
    /\ models_by_number' = AddModelByNumber(models_by_number, models, line.number)
    /\ atom_num_nondec_mode' = "none"
    /\ next_atom_number' = 1
    /\ residue_num_nondec_mode' = "none"
    /\ next_residue_number' = 1
    /\ state' = "None"
    /\ last_atom' = NoAtom
    /\ diags' = << >>
    /\ UNCHANGED << unit_cell, load_all_models, pc >>

\* A MODEL line
ModelLine(line) ==
    /\ Consume(line)
    /\ line.kind = "MODEL"
    /\ models' = AddModel(models, NextModelNumber(models))
    /\ models_by_number' = AddModelByNumber(models_by_number, models, NextModelNumber(models))
    /\ atom_num_nondec_mode' = "none"
    /\ next_atom_number' = 1
    /\ residue_num_nondec_mode' = "none"
    /\ next_residue_number' = 1
    /\ state' = "None"
    /\ last_atom' = NoAtom
    /\ diags' = << >>
    /\ UNCHANGED << unit_cell, load_all_models, pc >>

\* EndModel without the break of a first-model-only load
EndModelNoBreak(line) ==
    /\ Consume(line)
    /\ last_atom' = NoAtom
    /\ diags' = << >>
    /\ IF Len(models) = 0
       THEN /\ pc' = "aborted"
            /\ UNCHANGED << models, state >>
       ELSE /\ models' = [models EXCEPT ![Len(models)] = ModelFinalize(@)]
            /\ state' = "NEW_MODEL"
            /\ pc' = "loading"
    /\ UNCHANGED << models_by_number, atom_num_nondec_mode, residue_num_nondec_mode,
                    next_atom_number, next_residue_number, unit_cell, load_all_models >>

\* EndModel leaving the finalized Model open for the next coordinate records
EndModelStaysOpen(line) ==
    /\ Consume(line)
    /\ last_atom' = NoAtom
    /\ diags' = << >>
    /\ IF Len(models) = 0
       THEN /\ pc' = "aborted"
            /\ UNCHANGED << models, state >>
       ELSE IF load_all_models
       THEN /\ models' = [models EXCEPT ![Len(models)] = ModelFinalize(@)]
            /\ state' = state
            /\ pc' = "loading"
       ELSE /\ models' = StructureFinalize([models EXCEPT ![Len(models)] = ModelFinalize(@)])
            /\ pc' = "done"
            /\ UNCHANGED state
    /\ UNCHANGED << models_by_number, atom_num_nondec_mode, residue_num_nondec_mode,
                    next_atom_number, next_residue_number, unit_cell, load_all_models >>

\* An ENDMDL line or an END line: the two branches of _load are the same code
EndModel(line) ==
    /\ Consume(line)
    /\ last_atom' = NoAtom
    /\ diags' = << >>
    /\ IF Len(models) = 0
       THEN \* self._current_model is None
            /\ pc' = "aborted"
            /\ UNCHANGED << models, state >>
       ELSE IF load_all_models
       THEN /\ models' = [models EXCEPT ![Len(models)] = ModelFinalize(@)]
            /\ state' = "NEW_MODEL"
            /\ pc' = "loading"
       ELSE \* break, then self._finalize()
            /\ models' = StructureFinalize([models EXCEPT ![Len(models)] = ModelFinalize(@)])
            /\ pc' = "done"
            /\ UNCHANGED state
    /\ UNCHANGED << models_by_number, atom_num_nondec_mode, residue_num_nondec_mode,
                    next_atom_number, next_residue_number, unit_cell, load_all_models >>

EndmdlLine(line) == line.kind = "ENDMDL" /\ EndModel(line)

EndLine(line) == line.kind = "END" /\ EndModel(line)

\* IsTerRecord asking for TER to be the only word of the line
IsTerRecordSoleWord(words) == words = << "TER" >>

\* pdb_line.split()[0] == "TER", for a line that starts with TER
IsTerRecord(words) == words[1] = "TER"

\* TerLine resetting the atom scope with the residue scope
TerLineResetsAtoms(line) ==
    /\ Consume(line)
    /\ line.kind = "TER"
    /\ last_atom' = NoAtom
    /\ diags' = << >>
    /\ IF ~IsTerRecord(line.words)
       THEN UNCHANGED << models, residue_num_nondec_mode, next_residue_number, pc,
                         atom_num_nondec_mode, next_atom_number >>
       ELSE IF Len(models) = 0 \/ Len(models[Len(models)].chains) = 0
       THEN /\ pc' = "aborted"
            /\ UNCHANGED << models, residue_num_nondec_mode, next_residue_number,
                            atom_num_nondec_mode, next_atom_number >>
       ELSE /\ models' = [models EXCEPT
                            ![Len(models)].chains[Len(models[Len(models)].chains)] =
                                ChainAddTerRecord(@)]
            /\ residue_num_nondec_mode' = "none"
            /\ next_residue_number' = 1
            /\ atom_num_nondec_mode' = "none"
            /\ next_atom_number' = 1
            /\ pc' = "loading"
    /\ UNCHANGED << models_by_number, unit_cell, load_all_models, state >>

\* A line that starts with TER; words is pdb_line.split()
TerLine(line) ==
    /\ Consume(line)
    /\ line.kind = "TER"
    /\ last_atom' = NoAtom
    /\ diags' = << >>
    /\ IF ~IsTerRecord(line.words)
       THEN \* no branch of _load takes the line
            UNCHANGED << models, residue_num_nondec_mode, next_residue_number, pc >>
       ELSE IF Len(models) = 0 \/ Len(models[Len(models)].chains) = 0
       THEN \* self._current_model or its _current_chain is None
            /\ pc' = "aborted"
            /\ UNCHANGED << models, residue_num_nondec_mode, next_residue_number >>
       ELSE /\ models' = [models EXCEPT
                            ![Len(models)].chains[Len(models[Len(models)].chains)] =
                                ChainAddTerRecord(@)]
            /\ residue_num_nondec_mode' = "none"
            /\ next_residue_number' = 1
            /\ pc' = "loading"
    /\ UNCHANGED << models_by_number, atom_num_nondec_mode, next_atom_number, unit_cell,
                    load_all_models, state >>

\* A CRYST1 line; cell is "bad" when float() fails on a field
Cryst1Line(line) ==
    /\ Consume(line)
    /\ line.kind = "CRYST1"
    /\ last_atom' = NoAtom
    /\ diags' = << >>
    /\ IF line.cell = "bad"
       THEN pc' = "aborted" /\ UNCHANGED unit_cell
       ELSE unit_cell' = line.cell /\ pc' = "loading"
    /\ UNCHANGED << models, models_by_number, atom_num_nondec_mode, residue_num_nondec_mode,
                    next_atom_number, next_residue_number, load_all_models, state >>

\* The atom numbers of a CONECT line: r is the first field resolved, rest the others
ConectJoin(r, rest) ==
    [ atoms    |-> << r.val >> \o rest.atoms,
      mode     |-> rest.mode,
      warnings |-> Warnings(r.warn, FALSE, FALSE) \o rest.warnings,
      raised   |-> rest.raised ]

\* The atom numbers of a CONECT line, resolved field by field:
\* [atoms, mode, warnings, raised]; an exception of _read_atom_number ends the loop
RECURSIVE ConectAtoms(_, _, _)
ConectRest(fields, r, next_atom) ==
    IF r.raised
    THEN [atoms |-> << >>, mode |-> r.mode, warnings |-> << >>, raised |-> TRUE]
    ELSE ConectJoin(r, ConectAtoms(Tail(fields), r.mode, next_atom))

ConectAtoms(fields, mode, next_atom) ==
    IF Len(fields) = 0
    THEN [atoms |-> << >>, mode |-> mode, warnings |-> << >>, raised |-> FALSE]
    ELSE ConectRest(fields, read_atom_number(fields[1], mode, next_atom), next_atom)

\* ConectStore putting the group in the place of the last group of the Model
ConectStoreOverwrites(c) ==
    /\ atom_num_nondec_mode' = c.mode
    /\ diags' = c.warnings
    /\ IF c.raised \/ Len(models) = 0
       THEN pc' = "aborted" /\ UNCHANGED models
       ELSE /\ models' = [models EXCEPT ![Len(models)].connects =
                             IF Len(@) = 0 THEN << c.atoms >>
                             ELSE [@ EXCEPT ![Len(@)] = c.atoms]]
            /\ pc' = "loading"

\* Line 450: the resolved atoms c.atoms are appended to the current Model
ConectStore(c) ==
    /\ atom_num_nondec_mode' = c.mode
    /\ diags' = c.warnings
    /\ IF c.raised \/ Len(models) = 0
       THEN pc' = "aborted" /\ UNCHANGED models
       ELSE /\ models' = [models EXCEPT ![Len(models)].connects = Append(@, c.atoms)]
            /\ pc' = "loading"

\* A CONECT line; fields are its 5-column fields up to the last non-blank one
ConectLine(line) ==
    /\ Consume(line)
    /\ line.kind = "CONECT"
    /\ ConectStore(ConectAtoms(line.fields, atom_num_nondec_mode, next_atom_number))
    /\ last_atom' = NoAtom
    /\ UNCHANGED << models_by_number, residue_num_nondec_mode, next_atom_number,
                    next_residue_number, unit_cell, load_all_models, state >>

\* A line no branch of _load takes
OtherLine(line) ==
    /\ Consume(line)
    /\ line.kind = "OTHER"
    /\ last_atom' = NoAtom
    /\ diags' = << >>
    /\ UNCHANGED << models, models_by_number, atom_num_nondec_mode, residue_num_nondec_mode,
                    next_atom_number, next_residue_number, unit_cell, load_all_models,
                    state, pc >>

\* The input stream ends: self._finalize()
EndOfInput ==
    /\ pc = "loading"
    /\ models' = StructureFinalize(models)
    /\ pc' = "done"
    /\ UNCHANGED << models_by_number, atom_num_nondec_mode, residue_num_nondec_mode,
                    next_atom_number, next_residue_number, unit_cell, load_all_models,
                    state, pdb_line, last_atom, diags, nread, nlines, output, yielded, decoded >>

(***************************************************************************)
(* write: the lines printed to output_stream.  A run of write is the       *)
(* record [lines, sn, ok]: the lines printed so far, the value of the      *)
(* shared AtomSerialNumber, and whether no exception was raised.           *)
(***************************************************************************)
\* alt_loc = "*", the default of Residue.write and Atom.write
AllLocations == << "*" >>

\* Atom._pdb_string(serial_number, alternate_location_indicator), the fields
\* that identify the line
PdbString(atom, serial_number, loc_id) ==
    [ kind |-> "ATOM", record_name |-> atom.record_name, serial |-> serial_number,
      name |-> atom.name_with_spaces, altloc |-> loc_id,
      resname |-> atom.residue_name_with_spaces, chain |-> atom.chain_id,
      resseq |-> atom.residue_number, icode |-> atom.insertion_code ]

\* Atom.write, lines 1183-1185: one line per entry of locs
AtomWriteLocs(atom, locs, run) ==
    [ lines |-> run.lines \o [i \in 1..Len(locs) |-> PdbString(atom, run.sn + i - 1, locs[i])],
      sn    |-> run.sn + Len(locs),
      ok    |-> TRUE ]

\* Atom.write(next_serial_number, output_stream, alt_loc); alt_loc is a tuple of
\* characters, << >> for None and "".  For "*" locs is self.locations.keys(), a
\* dict view: locs.sort() raises AttributeError before a line is printed.
AtomWrite(atom, alt_loc, run) ==
    IF alt_loc = AllLocations THEN [run EXCEPT !.ok = FALSE]
    ELSE AtomWriteLocs(atom,
                       IF alt_loc = << >> THEN << atom.default_location_id >> ELSE alt_loc,
                       run)

\* Residue.write(next_serial_number, output_stream, alt_loc) from the i-th atom on
RECURSIVE ResidueWriteFrom(_, _, _, _)
ResidueWriteFrom(res, i, alt_loc, run) ==
    IF i > Len(res.atoms) \/ ~run.ok THEN run
    ELSE ResidueWriteFrom(res, i + 1, alt_loc, AtomWrite(res.atoms[i], alt_loc, run))

\* Chain.write, lines 714-715, from the i-th residue on
RECURSIVE ChainWriteFrom(_, _, _)
ChainWriteFrom(chain, i, run) ==
    IF i > Len(chain.residues) \/ ~run.ok THEN run
    ELSE ChainWriteFrom(chain, i + 1, ResidueWriteFrom(chain.residues[i], 1, AllLocations, run))

\* Chain.write, lines 716-729: the TER line of a terminated chain
ChainWriteTer(chain, run) ==
    IF run.ok /\ chain.has_ter_record
    THEN [ lines |-> Append(run.lines,
                            [ kind    |-> "TER", serial |-> run.sn,
                              resname |-> ResidueName(chain.residues[Len(chain.residues)]),
                              chain   |-> chain.chain_id,
                              resseq  |-> chain.residues[Len(chain.residues)].number % 10000,
                              icode   |-> chain.residues[Len(chain.residues)].insertion_code ]),
           sn    |-> run.sn + 1,
           ok    |-> TRUE ]
    ELSE run

\* Chain.write(next_serial_number, output_stream)
ChainWrite(chain, run) == ChainWriteTer(chain, ChainWriteFrom(chain, 1, run))

\* Model.write, lines 619-620, from the i-th chain on
RECURSIVE ModelWriteFrom(_, _, _)
ModelWriteFrom(model, i, run) ==
    IF i > Len(model.chains) \/ ~run.ok THEN run
    ELSE ModelWriteFrom(model, i + 1, ChainWrite(model.chains[i], run))

\* Model.write(output_stream): the serial numbers start at 1
ModelWrite(model, run) == ModelWriteFrom(model, 1, [run EXCEPT !.sn = 1])

\* print(line, file=output_stream) unless an exception was raised before
PrintLine(run, line) == IF run.ok THEN [run EXCEPT !.lines = Append(@, line)] ELSE run

\* PdbStructure.write, lines 465-471, for one model
StructureWriteModel(mods, model, run) ==
    IF Len(model.chains) = 0 THEN run
    ELSE IF Len(mods) > 1
    THEN PrintLine(ModelWrite(model, PrintLine(run, [kind |-> "MODEL", number |-> model.number])),
                   [kind |-> "ENDMDL"])
    ELSE ModelWrite(model, run)

\* PdbStructure.write, line 464, from the i-th model on
RECURSIVE StructureWriteFrom(_, _, _)
StructureWriteFrom(mods, i, run) ==
    IF i > Len(mods) \/ ~run.ok THEN run
    ELSE StructureWriteFrom(mods, i + 1, StructureWriteModel(mods, mods[i], run))

\* PdbStructure.write(output_stream)
StructureWrite(mods) ==
    PrintLine(StructureWriteFrom(mods, 1, [lines |-> << >>, sn |-> 1, ok |-> TRUE]),
              [kind |-> "END"])

\* The caller writes the loaded structure
Write ==
    /\ pc = "done"
    /\ output' = StructureWrite(models).lines
    /\ pc' = IF StructureWrite(models).ok THEN "written" ELSE "write_failed"
    /\ UNCHANGED << models, models_by_number, atom_num_nondec_mode, residue_num_nondec_mode,
                    next_atom_number, next_residue_number, unit_cell, load_all_models,
                    state, pdb_line, last_atom, diags, nread, nlines, yielded, decoded >>

(***************************************************************************)
(* The traversals: iter_atoms and iter_positions.                          *)
(***************************************************************************)
\* The concatenation of a sequence of sequences (yield from, in a loop)
RECURSIVE Flatten(_)
Flatten(ss) == IF Len(ss) = 0 THEN << >> ELSE Head(ss) \o Flatten(Tail(ss))

\* Residue.iter_atoms, lines 883-890: locs for alt_loc, a tuple of characters;
\* << >> is None and "", AllLocations is "*" (locs = None)
ResidueIterLocs(res, alt_loc) ==
    IF alt_loc = << >> THEN << res.primary_location_id >> ELSE alt_loc

\* Residue.iter_atoms, lines 893-898: use_atom
UseAtom(atom, locs) ==
    \E i \in 1..Len(atom.locations) :
        \/ locs = AllLocations
        \/ \E k \in 1..Len(locs) : atom.locations[i].alt_loc = locs[k]

\* The atoms of a list that Residue.iter_atoms yields for locs
RECURSIVE UsedAtoms(_, _)
UsedAtoms(atoms, locs) ==
    IF Len(atoms) = 0 THEN << >>
    ELSE (IF UseAtom(Head(atoms), locs) THEN << Head(atoms) >> ELSE << >>)
         \o UsedAtoms(Tail(atoms), locs)

\* Residue.iter_atoms(alt_loc)
ResidueIterAtoms(res, alt_loc) == UsedAtoms(res.atoms, ResidueIterLocs(res, alt_loc))

\* Residue.__iter__
ResidueIter(res) == ResidueIterAtoms(res, << >>)

\* Atom.get_location(): the Location of default_location_id
AtomLocation(atom) ==
    atom.locations[CHOOSE i \in 1..Len(atom.locations) :
                       atom.locations[i].alt_loc = atom.default_location_id]

\* Atom.position
AtomPosition(atom) == AtomLocation(atom).position

\* Atom.iter_positions()
AtomIterPositions(atom) == [i \in 1..Len(atom.locations) |-> atom.locations[i].position]

\* Residue.iter_positions, lines 904-908, for the atoms the iteration yields
PositionsOf(atoms, include_alt_loc) ==
    Flatten([i \in 1..Len(atoms) |->
                IF include_alt_loc THEN AtomIterPositions(atoms[i])
                ELSE << AtomPosition(atoms[i]) >>])

\* Residue.iter_positions(include_alt_loc)
ResidueIterPositions(res, include_alt_loc) == PositionsOf(ResidueIter(res), include_alt_loc)

\* Chain.iter_atoms()
ChainIterAtoms(chain) ==
    Flatten([r \in 1..Len(chain.residues) |-> ResidueIter(chain.residues[r])])

\* Chain.iter_positions(include_alt_loc)
ChainIterPositions(chain, include_alt_loc) ==
    Flatten([r \in 1..Len(chain.residues) |->
                ResidueIterPositions(chain.residues[r], include_alt_loc)])

\* Model.iter_atoms()
ModelIterAtoms(model) ==
    Flatten([c \in 1..Len(model.chains) |-> ChainIterAtoms(model.chains[c])])

\* Model.iter_positions(include_alt_loc)
ModelIterPositions(model, include_alt_loc) ==
    Flatten([c \in 1..Len(model.chains) |-> ChainIterPositions(model.chains[c], include_alt_loc)])

\* PdbStructure.iter_models(use_all_models)
StructureIterModels(mods, use_all_models) ==
    IF use_all_models THEN mods
    ELSE IF Len(mods) > 0 THEN << mods[1] >>
    ELSE << >>

\* PdbStructure.iter_atoms(use_all_models), over the models the iteration yields
StructureIterAtoms(mods) == Flatten([m \in 1..Len(mods) |-> ModelIterAtoms(mods[m])])

\* PdbStructure.iter_positions(use_all_models, include_alt_loc), likewise
StructureIterPositions(mods, include_alt_loc) ==
    Flatten([m \in 1..Len(mods) |-> ModelIterPositions(mods[m], include_alt_loc)])

\* The caller runs iter_atoms and iter_positions on the loaded structure
Traverse(use_all_models, include_alt_loc) ==
    /\ pc = "done"
    /\ ~yielded.done
    /\ yielded' = [ atoms     |-> StructureIterAtoms(StructureIterModels(models, use_all_models)),
                    positions |-> StructureIterPositions(
                                      StructureIterModels(models, use_all_models),
                                      include_alt_loc),
                    use_all_models  |-> use_all_models,
                    include_alt_loc |-> include_alt_loc,
                    done      |-> TRUE ]
    /\ UNCHANGED << models, models_by_number, atom_num_nondec_mode, residue_num_nondec_mode,
                    next_atom_number, next_residue_number, unit_cell, load_all_models,
                    state, pdb_line, last_atom, diags, nread, pc, nlines, output, decoded >>

(***************************************************************************)
(* Input lines.                                                            *)
(***************************************************************************)
Serial1 == << " "," "," "," ","1" >>
Seq1 == << " "," "," ","1" >>
Seq2 == << " "," "," ","2" >>
NameN == << " ","N"," "," " >>
NameCA == << " ","C","A"," " >>
ALA == << "A","L","A"," " >>
GLY == << "G","L","Y"," " >>
NoCharge == << " "," " >>

AtomRecord(serial, name, altloc, resname, chain, resseq) ==
    [ kind |-> "ATOM", record_name |-> "ATOM", serial |-> serial, name |-> name,
      altloc |-> altloc, resname |-> resname, chain |-> chain, resseq |-> resseq,
      icode |-> " ", xyz |-> "1.000", charge |-> NoCharge ]

MODEL == [kind |-> "MODEL", number |-> 1]
ENDMDL == [kind |-> "ENDMDL"]
END == [kind |-> "END"]
TER == [kind |-> "TER", words |-> << "TER" >>]

\* Coordinate lines of one chain that differ in atom name, alternate location
\* and residue name
ResidueLines ==
    { AtomRecord(Serial1, n, a, r, "A", Seq1) :
        n \in {NameN, NameCA}, a \in {" ", "A"}, r \in {ALA, GLY} }

Next ==
    \/ \E line \in ResidueLines : AtomLine(line)
    \/ TerLine(TER)
    \/ EndmdlLine(ENDMDL)
    \/ EndOfInput

Spec == Init /\ [][Next]_vars

\* Coordinate lines of two chains
ChainLines ==
    { AtomRecord(Serial1, n, " ", ALA, c, Seq1) : n \in {NameN, NameCA}, c \in {"A", "B"} }

NextChains ==
    \/ \E line \in ChainLines : AtomLine(line)
    \/ TerLine(TER)
    \/ ModelLine(MODEL)
    \/ EndmdlLine(ENDMDL)
    \/ EndLine(END)
    \/ EndOfInput

SpecChains == Init /\ [][NextChains]_vars

\* Serial and residue-number fields at and past the ceilings of the columns
Serial99999 == << "9","9","9","9","9" >>
Seq9999 == << "9","9","9","9" >>

\* Coordinate lines that differ in the serial field
SerialLines ==
    { AtomRecord(t, NameN, " ", ALA, "A", Seq1) :
        t \in {Serial99999, HexAtomKey, OverflowAtomKey} }

\* Coordinate lines that differ in the residue-number field
ResidueNumberLines ==
    { AtomRecord(Serial1, NameN, " ", ALA, "A", t) :
        t \in {Seq9999, HexResidueKey, OverflowResidueKey} }
    \cup { AtomRecord(Serial1, NameCA, " ", ALA, "A", OverflowResidueKey) }

NextNumbers ==
    \/ \E line \in SerialLines \cup ResidueNumberLines : AtomLine(line)
    \/ TerLine(TER)
    \/ ModelLine(MODEL)
    \/ EndmdlLine(ENDMDL)
    \/ EndOfInput

SpecNumbers == Init /\ [][NextNumbers]_vars

\* Coordinate lines of one residue with and without alternate locations
WriteLines ==
    { AtomRecord(Serial1, n, a, ALA, "A", Seq1) : n \in {NameN, NameCA}, a \in {" ", "A"} }

NextWrite ==
    \/ \E line \in WriteLines : AtomLine(line)
    \/ TerLine(TER)
    \/ ModelLine(MODEL)
    \/ EndmdlLine(ENDMDL)
    \/ EndLine(END)
    \/ EndOfInput
    \/ Write

SpecWrite == Init /\ [][NextWrite]_vars

\* The lines of a file of MODEL ... ENDMDL blocks
BlockAtom == AtomRecord(Serial1, NameN, " ", ALA, "A", Seq1)

NextBlocks ==
    \/ AtomLine(BlockAtom)
    \/ ModelLine(MODEL)
    \/ EndmdlLine(ENDMDL)
    \/ EndLine(END)
    \/ EndOfInput

SpecBlocks == InitBlocks /\ [][NextBlocks]_vars

\* Coordinate lines that repeat residue numbers, insertion codes, chain ids and
\* atom names
LookupLines ==
    { [AtomRecord(Serial1, NameN, " ", ALA, "A", t) EXCEPT !.icode = c] :
        t \in {Seq1, Seq2}, c \in {" ", "A"} }
    \cup { AtomRecord(Serial1, NameCA, " ", ALA, "A", Seq1),
           AtomRecord(Serial1, NameN, " ", ALA, "A", OverflowResidueKey),
           AtomRecord(Serial1, NameN, " ", ALA, "B", Seq1) }

NextLookup ==
    \/ \E line \in LookupLines : AtomLine(line)
    \/ TerLine(TER)
    \/ EndOfInput

SpecLookup == Init /\ [][NextLookup]_vars

\* Coordinate lines of one residue, each with its own coordinates
TraverseLines ==
    { [AtomRecord(Serial1, NameN, " ", ALA, "A", Seq1) EXCEPT !.xyz = "1.000"],
      [AtomRecord(Serial1, NameN, "A", ALA, "A", Seq1) EXCEPT !.xyz = "2.000"],
      [AtomRecord(Serial1, NameCA, " ", ALA, "A", Seq1) EXCEPT !.xyz = "3.000"],
      [AtomRecord(Serial1, NameCA, "A", ALA, "A", Seq1) EXCEPT !.xyz = "4.000"] }

NextTraverse ==
    \/ \E line \in TraverseLines : AtomLine(line)
    \/ TerLine(TER)
    \/ EndmdlLine(ENDMDL)
    \/ EndOfInput
    \/ \E use_all_models, include_alt_loc \in BOOLEAN : Traverse(use_all_models, include_alt_loc)

SpecTraverse == Init /\ [][NextTraverse]_vars

(***************************************************************************)
(* Vocabulary of the properties.                                           *)
(***************************************************************************)
HasOpenResidue(mods) ==
    /\ Len(mods) > 0
    /\ Len(mods[Len(mods)].chains) > 0
    /\ Len(mods[Len(mods)].chains[Len(mods[Len(mods)].chains)].residues) > 0

OpenChain(mods) == mods[Len(mods)].chains[Len(mods[Len(mods)].chains)]

OpenResidue(mods) == OpenChain(mods).residues[Len(OpenChain(mods).residues)]

\* The step handles a coordinate record without raising
CoordinateStep ==
    /\ pc = "loading"
    /\ nread' = nread + 1
    /\ pdb_line'.kind = "ATOM"
    /\ pc' = "loading"

\* The coordinate record of the step is placed in the Chain that was open
SameChainStep ==
    /\ CoordinateStep
    /\ HasOpenResidue(models)
    /\ Len(models') = Len(models)
    /\ Len(models'[Len(models)].chains) = Len(models[Len(models)].chains)

\* The coordinate record of the step is placed in the Residue that was open
SameResidueStep ==
    /\ SameChainStep
    /\ Len(OpenChain(models').residues) = Len(OpenChain(models).residues)

\* The step's record names an atom the open Residue holds
KnownAtomStep ==
    /\ SameResidueStep
    /\ last_atom'.name_with_spaces \in DOMAIN OpenResidue(models).atoms_by_name

\* The Atom the open Residue holds under the name of the step's record
ExistingAtom == OpenResidue(models).atoms_by_name[last_atom'.name_with_spaces]

(***************************************************************************)
(* C1.  A coordinate record that resolves to the open Residue, names an    *)
(* atom the Residue holds and carries an alternate-location id that atom   *)
(* already has, is dropped: the Residue's atom list and its atom-by-name   *)
(* lookup are the same after the record as before it.                      *)
(***************************************************************************)
C1_DuplicateDropped ==
    [][ ( /\ KnownAtomStep
          /\ HasLocation(OpenResidue(models).atoms[ExistingAtom],
                         last_atom'.default_location_id) )
        => /\ OpenResidue(models').atoms = OpenResidue(models).atoms
           /\ OpenResidue(models').atoms_by_name = OpenResidue(models).atoms_by_name ]_vars

(***************************************************************************)
(* C2.  A coordinate record that resolves to the open Residue, names an    *)
(* atom the Residue holds and carries an alternate-location id that atom   *)
(* does not have yet, adds its Location to that atom and appends no Atom:  *)
(* the atom count is unchanged and the atom's location count grows by one. *)
(***************************************************************************)
C2_MergeAddsLocation ==
    [][ ( /\ KnownAtomStep
          /\ ~HasLocation(OpenResidue(models).atoms[ExistingAtom],
                          last_atom'.default_location_id) )
        => /\ Len(OpenResidue(models').atoms) = Len(OpenResidue(models).atoms)
           /\ OpenResidue(models').atoms_by_name = OpenResidue(models).atoms_by_name
           /\ Len(OpenResidue(models').atoms[ExistingAtom].locations)
                = Len(OpenResidue(models).atoms[ExistingAtom].locations) + 1
           /\ HasLocation(OpenResidue(models').atoms[ExistingAtom],
                          last_atom'.default_location_id) ]_vars

\* A record was merged: the atom of its name holds the record's location last,
\* after at least one older location, and is not the record's own Atom
C2_Witness ==
    /\ pc = "loading"
    /\ last_atom # NoAtom
    /\ HasOpenResidue(models)
    /\ last_atom.name_with_spaces \in DOMAIN OpenResidue(models).atoms_by_name
    /\ LET old == OpenResidue(models).atoms[
                      OpenResidue(models).atoms_by_name[last_atom.name_with_spaces]]
       IN  /\ Len(old.locations) >= 2
           /\ old.locations[Len(old.locations)] = last_atom.locations[1]
           /\ old.default_location_id # last_atom.default_location_id

(***************************************************************************)
(* C7, C8: a residue-name change within one residue number.                *)
(***************************************************************************)
\* How many "two consecutive residues with same number" warnings d holds
SameNumberWarnings(d) == Cardinality({ i \in 1..Len(d) : d[i] = "same_number" })

\* The step's record follows a coordinate record in the same Chain, with the
\* same resolved residue number and insertion code and another residue name
ConsecutiveRenamedStep ==
    /\ pdb_line.kind = "ATOM"
    /\ last_atom # NoAtom
    /\ SameChainStep
    /\ last_atom'.residue_number = last_atom.residue_number
    /\ last_atom'.insertion_code = last_atom.insertion_code
    /\ last_atom'.residue_name_with_spaces # last_atom.residue_name_with_spaces

\* The step's record goes to the open Chain with the open Residue's number and
\* insertion code
SameSlotStep ==
    /\ SameChainStep
    /\ last_atom'.residue_number = OpenResidue(models).number
    /\ last_atom'.insertion_code = OpenResidue(models).insertion_code

(***************************************************************************)
(* C7 as claimed.  Two consecutive coordinate records in the same chain    *)
(* with the same resolved residue number and insertion code but different  *)
(* residue names, the second with a blank alternate-location indicator,    *)
(* produce two Residues (the second opens one) and exactly one diagnostic. *)
(***************************************************************************)
C7_Claimed ==
    [][ (ConsecutiveRenamedStep /\ last_atom'.default_location_id = " ")
        => /\ Len(OpenChain(models').residues) = Len(OpenChain(models).residues) + 1
           /\ Len(diags') = 1 ]_vars

(***************************************************************************)
(* C7 as amended.  A coordinate record with the open Residue's number and  *)
(* insertion code and a blank alternate-location indicator opens a new     *)
(* Residue, with exactly one same-number diagnostic, exactly when its      *)
(* residue name differs from the open Residue's name, which is the name    *)
(* of the Residue's primary location and not the previous record's name.   *)
(***************************************************************************)
C7_NameChangeOpensResidue ==
    [][ (SameSlotStep /\ last_atom'.default_location_id = " ")
        => IF ResidueName(OpenResidue(models)) # last_atom'.residue_name_with_spaces
           THEN /\ Len(OpenChain(models').residues) = Len(OpenChain(models).residues) + 1
                /\ OpenResidue(models').atoms = << last_atom' >>
                /\ ResidueName(OpenResidue(models')) = last_atom'.residue_name_with_spaces
                /\ SameNumberWarnings(diags') = 1
           ELSE /\ Len(OpenChain(models').residues) = Len(OpenChain(models).residues)
                /\ SameNumberWarnings(diags') = 0 ]_vars

\* The last record, with a blank indicator, opened a second Residue of the same
\* number and insertion code under another name, with the diagnostic
C7_Witness ==
    /\ pc = "loading"
    /\ last_atom # NoAtom
    /\ last_atom.default_location_id = " "
    /\ SameNumberWarnings(diags) = 1
    /\ HasOpenResidue(models)
    /\ Len(OpenChain(models).residues) >= 2
    /\ LET rs == OpenChain(models).residues
       IN  /\ rs[Len(rs)].number = rs[Len(rs) - 1].number
           /\ rs[Len(rs)].insertion_code = rs[Len(rs) - 1].insertion_code
           /\ ResidueName(rs[Len(rs)]) # ResidueName(rs[Len(rs) - 1])
           /\ rs[Len(rs)].atoms = << last_atom >>

(***************************************************************************)
(* C8 as claimed.  The same two records, the second with a non-blank       *)
(* alternate-location indicator, leave one Residue whose name table holds  *)
(* both residue names, and emit no diagnostic.                             *)
(***************************************************************************)
C8_Claimed ==
    [][ (ConsecutiveRenamedStep /\ last_atom'.default_location_id # " ")
        => /\ Len(OpenChain(models').residues) = Len(OpenChain(models).residues)
           /\ \E k \in DOMAIN OpenResidue(models').locations :
                 OpenResidue(models').locations[k] = last_atom.residue_name_with_spaces
           /\ \E k \in DOMAIN OpenResidue(models').locations :
                 OpenResidue(models').locations[k] = last_atom'.residue_name_with_spaces
           /\ diags' = << >> ]_vars

(***************************************************************************)
(* C8 as amended.  A coordinate record with the open Residue's number and  *)
(* insertion code, a residue name other than the open Residue's name and a *)
(* non-blank alternate-location indicator stays in that Residue without a  *)
(* same-number diagnostic; the Residue's name table gains the entry        *)
(* indicator -> record's residue name when the indicator is new to the     *)
(* table, and is unchanged when the indicator is already in it.            *)
(***************************************************************************)
C8_PointMutationMerged ==
    [][ ( /\ SameSlotStep
          /\ ResidueName(OpenResidue(models)) # last_atom'.residue_name_with_spaces
          /\ last_atom'.default_location_id # " " )
        => /\ Len(OpenChain(models').residues) = Len(OpenChain(models).residues)
           /\ SameNumberWarnings(diags') = 0
           /\ ResidueName(OpenResidue(models')) = ResidueName(OpenResidue(models))
           /\ OpenResidue(models').locations =
                IF last_atom'.default_location_id \in DOMAIN OpenResidue(models).locations
                THEN OpenResidue(models).locations
                ELSE OpenResidue(models).locations
                       @@ (last_atom'.default_location_id :> last_atom'.residue_name_with_spaces) ]_vars

\* The last record, with a non-blank indicator, added its residue name to the
\* table of a Residue whose own name is another one
C8_Witness ==
    /\ pc = "loading"
    /\ last_atom # NoAtom
    /\ last_atom.default_location_id # " "
    /\ diags = << >>
    /\ HasOpenResidue(models)
    /\ LET res == OpenResidue(models)
       IN  /\ Cardinality(DOMAIN res.locations) = 2
           /\ res.primary_location_id # last_atom.default_location_id
           /\ res.locations[last_atom.default_location_id] = last_atom.residue_name_with_spaces
           /\ ResidueName(res) # last_atom.residue_name_with_spaces
           /\ Len(res.atoms) >= 2
           /\ res.atoms[Len(res.atoms)] = last_atom

(***************************************************************************)
(* C3, C4, C5, C6: the scopes of the resolver.                             *)
(***************************************************************************)
\* The step reads a coordinate record and builds its Atom
ResolvedStep ==
    /\ pc = "loading"
    /\ nread' = nread + 1
    /\ pdb_line'.kind = "ATOM"
    /\ last_atom' # NoAtom

\* The coordinate record of the step is the first one of its Model: it opens
\* the Model itself after an ENDMDL or END line, or the Model a MODEL line
\* opened holds no Chain yet
FirstRecordOfModel ==
    \/ state = "NEW_MODEL"
    \/ Len(models) > 0 /\ Len(models[Len(models)].chains) = 0

(***************************************************************************)
(* C3.  When the first coordinate record of a Model opened by a MODEL line *)
(* or opened implicitly after an ENDMDL / END line is resolved, the atom   *)
(* and residue counters are 1 and the atom and residue modes are unlocked. *)
(***************************************************************************)
C3_FreshScopesAtModelStart ==
    [][ (ResolvedStep /\ FirstRecordOfModel)
        => /\ next_atom_number = 1
           /\ next_residue_number = 1
           /\ atom_num_nondec_mode = "none"
           /\ residue_num_nondec_mode = "none" ]_vars

(***************************************************************************)
(* C4.  The first coordinate record after a TER line resolves its residue  *)
(* number with the residue counter at 1 and the residue mode unlocked, and *)
(* to the number the same token resolves to in a Structure that holds no   *)
(* Residue.                                                                *)
(***************************************************************************)
C4_FreshResidueScopeAfterTer ==
    [][ (ResolvedStep /\ pdb_line.kind = "TER")
        => /\ next_residue_number = 1
           /\ residue_num_nondec_mode = "none"
           /\ last_atom'.residue_number =
                read_residue_number(pdb_line'.resseq, "none", << >>, 1,
                                    last_atom'.name_with_spaces,
                                    last_atom'.residue_name_with_spaces).val ]_vars

\* The step resolves a serial field that is a decimal numeral, mode unlocked
DecimalSerialStep ==
    /\ ResolvedStep
    /\ atom_num_nondec_mode = "none"
    /\ PyInt(pdb_line'.serial, 10).ok

\* The step resolves a residue-number field that is a decimal numeral, mode unlocked
DecimalResidueStep ==
    /\ ResolvedStep
    /\ residue_num_nondec_mode = "none"
    /\ PyInt(pdb_line'.resseq, 10).ok

(***************************************************************************)
(* C5 as claimed.  With the mode unlocked, an atom or residue token that   *)
(* is a decimal numeral resolves to int(token) and leaves the mode         *)
(* unlocked, whatever the counter.                                         *)
(***************************************************************************)
C5_Claimed ==
    [][ /\ DecimalSerialStep
           => /\ last_atom'.serial_number = PyInt(pdb_line'.serial, 10).val
              /\ atom_num_nondec_mode' = "none"
        /\ DecimalResidueStep
           => /\ last_atom'.residue_number = PyInt(pdb_line'.resseq, 10).val
              /\ residue_num_nondec_mode' = "none" ]_vars

(***************************************************************************)
(* C5 as amended.  With the mode unlocked, an atom or residue token that   *)
(* is a decimal numeral resolves to int(token) and leaves the mode         *)
(* unlocked, except the residue token "2710" met with the residue counter  *)
(* above 9999: it resolves to 10000 and locks the base-16 decoder.         *)
(***************************************************************************)
C5_DecimalExceptHexSentinel ==
    [][ /\ DecimalSerialStep
           => /\ last_atom'.serial_number = PyInt(pdb_line'.serial, 10).val
              /\ atom_num_nondec_mode' = "none"
        /\ DecimalResidueStep
           => IF pdb_line'.resseq = HexResidueKey /\ next_residue_number > ResidueCeiling
              THEN /\ last_atom'.residue_number = 10000
                   /\ residue_num_nondec_mode' = "hex"
              ELSE /\ last_atom'.residue_number = PyInt(pdb_line'.resseq, 10).val
                   /\ residue_num_nondec_mode' = "none" ]_vars

\* Two records in a row were resolved to residue 9999 from a decimal token,
\* the second one with the residue counter at 10000, and the mode is unlocked
C5_Witness ==
    /\ pc = "loading"
    /\ pdb_line.kind = "ATOM"
    /\ last_atom # NoAtom
    /\ PyInt(pdb_line.resseq, 10).ok
    /\ last_atom.residue_number = 9999
    /\ residue_num_nondec_mode = "none"
    /\ atom_num_nondec_mode = "none"
    /\ next_residue_number > ResidueCeiling
    /\ HasOpenResidue(models)
    /\ Len(OpenResidue(models).atoms) >= 2
    /\ \A i \in 1..Len(OpenResidue(models).atoms) :
          OpenResidue(models).atoms[i].residue_number = 9999

\* The step resolves the token "186a0" with the atom mode unlocked and the
\* atom counter above 99999
HexSentinelStep ==
    /\ ResolvedStep
    /\ atom_num_nondec_mode = "none"
    /\ next_atom_number > AtomCeiling
    /\ pdb_line'.serial = HexAtomKey

\* The atom mode is unlocked by the step only if the step reads a MODEL line
UnlockedOnlyByModel ==
    (atom_num_nondec_mode # "none" /\ atom_num_nondec_mode' = "none")
        => (nread' = nread + 1 /\ pdb_line'.kind = "MODEL")

(***************************************************************************)
(* C6 as claimed.  The token "186a0" resolved with the atom mode unlocked  *)
(* and the atom counter above 99999 locks the base-16 decoder; while it is *)
(* locked every atom token is resolved to int(token, 16) and the decoder   *)
(* stays the one of the next token; the atom mode is unlocked again by a   *)
(* MODEL line only.                                                        *)
(***************************************************************************)
C6_Claimed ==
    [][ /\ HexSentinelStep => atom_num_nondec_mode' = "hex"
        /\ (ResolvedStep /\ atom_num_nondec_mode = "hex")
           => /\ HexDecode(pdb_line'.serial).ok
              /\ last_atom'.serial_number = HexDecode(pdb_line'.serial).val
              /\ atom_num_nondec_mode' = "hex"
        /\ UnlockedOnlyByModel ]_vars

(***************************************************************************)
(* C6 as amended.  The token "186a0" resolved with the atom mode unlocked  *)
(* and the atom counter above 99999 locks the base-16 decoder and resolves *)
(* to 100000.  While the decoder is locked, an atom token that is a        *)
(* base-16 numeral resolves to int(token, 16) and keeps it locked; an atom *)
(* token that is not a base-16 numeral resolves to the atom counter with a *)
(* diagnostic and replaces the decoder by the sequential guess.  The atom  *)
(* mode is unlocked again by a MODEL line only.                            *)
(***************************************************************************)
C6_HexUntilUnreadable ==
    [][ /\ HexSentinelStep
           => /\ atom_num_nondec_mode' = "hex"
              /\ last_atom'.serial_number = 100000
        /\ (ResolvedStep /\ atom_num_nondec_mode = "hex")
           => IF HexDecode(pdb_line'.serial).ok
              THEN /\ last_atom'.serial_number = HexDecode(pdb_line'.serial).val
                   /\ atom_num_nondec_mode' = "hex"
              ELSE /\ last_atom'.serial_number = next_atom_number
                   /\ atom_num_nondec_mode' = "overflow"
                   /\ \E i \in 1..Len(diags') : diags'[i] = "guess_atom_number"
        /\ UnlockedOnlyByModel ]_vars

\* The token "186a0" was resolved twice in a row to 100000: by the step that
\* locked the base-16 decoder and by the next step, under the locked decoder
C6_Witness ==
    /\ pc = "loading"
    /\ atom_num_nondec_mode = "hex"
    /\ pdb_line.kind = "ATOM"
    /\ pdb_line.serial = HexAtomKey
    /\ last_atom # NoAtom
    /\ last_atom.serial_number = 100000
    /\ HasOpenResidue(models)
    /\ Len(OpenResidue(models).atoms) >= 3
    /\ LET atoms == OpenResidue(models).atoms
       IN  /\ atoms[Len(atoms)].serial_number = 100000
           /\ atoms[Len(atoms) - 1].serial_number = 100000
           /\ atoms[Len(atoms) - 2].serial_number = 99999

(***************************************************************************)
(* C9, C10: the Chains of a Model.                                         *)
(***************************************************************************)
(***************************************************************************)
(* C9 as claimed.  Two Chains of one Model have the same chain id only if  *)
(* one comes right after the other and the earlier one has its terminator  *)
(* flag set.                                                               *)
(***************************************************************************)
C9_Claimed ==
    \A m \in 1..Len(models) :
        \A i, j \in 1..Len(models[m].chains) :
            (i < j /\ models[m].chains[i].chain_id = models[m].chains[j].chain_id)
                => (j = i + 1 /\ models[m].chains[i].has_ter_record)

(***************************************************************************)
(* C9 as amended.  A Chain has the chain id of the Chain right before it   *)
(* in the Model only if that earlier Chain has its terminator flag set;    *)
(* Chains that are not neighbours may share a chain id.                    *)
(***************************************************************************)
C9_NeighboursDistinctUnlessTer ==
    \A m \in 1..Len(models) :
        \A i \in 1..Len(models[m].chains) :
            ( /\ i < Len(models[m].chains)
              /\ models[m].chains[i].chain_id = models[m].chains[i + 1].chain_id )
                => models[m].chains[i].has_ter_record

\* A Model holds a terminated Chain followed by a Chain of the same id, and a
\* Chain of another id
C9_Witness ==
    \E m \in 1..Len(models) :
        /\ Len(models[m].chains) >= 3
        /\ \E i \in 1..(Len(models[m].chains) - 1) :
              /\ models[m].chains[i].chain_id = models[m].chains[i + 1].chain_id
              /\ models[m].chains[i].has_ter_record
        /\ \E i \in 1..(Len(models[m].chains) - 1) :
              models[m].chains[i].chain_id # models[m].chains[i + 1].chain_id

\* The step's coordinate record lands in the Model whose open Chain is terminated
AfterTerStep ==
    /\ CoordinateStep
    /\ HasOpenResidue(models)
    /\ OpenChain(models).has_ter_record
    /\ Len(models') = Len(models)

(***************************************************************************)
(* C10.  A Chain whose terminator flag is set is left as it is by every    *)
(* step, and a coordinate record placed in a Model whose open Chain is     *)
(* terminated goes to a newly created Chain that holds this record only,   *)
(* also when the record carries the terminated Chain's id.                 *)
(***************************************************************************)
C10_TerminatedChainFrozen ==
    [][ /\ \A m \in 1..Len(models) :
              \A c \in 1..Len(models[m].chains) :
                  models[m].chains[c].has_ter_record
                      => /\ m <= Len(models')
                         /\ c <= Len(models'[m].chains)
                         /\ models'[m].chains[c] = models[m].chains[c]
        /\ AfterTerStep
              => /\ Len(models'[Len(models)].chains) = Len(models[Len(models)].chains) + 1
                 /\ OpenChain(models').chain_id = last_atom'.chain_id
                 /\ ~OpenChain(models').has_ter_record
                 /\ Len(OpenChain(models').residues) = 1
                 /\ OpenResidue(models').atoms = << last_atom' >> ]_vars

\* A record with the id of the terminated Chain before it opened a new Chain,
\* and a model-end line has been read since
C10_Witness ==
    /\ Len(models) > 0
    /\ pdb_line.kind \in {"ENDMDL", "END"}
    /\ Len(models[1].chains) >= 2
    /\ models[1].chains[1].has_ter_record
    /\ models[1].chains[2].chain_id = models[1].chains[1].chain_id
    /\ Len(models[1].chains[2].residues) = 1

(***************************************************************************)
(* C11, C16: write.                                                        *)
(***************************************************************************)
\* write has returned or raised
WriteEnded == pc \in {"written", "write_failed"}

\* The line carries a serial number
Numbered(line) == line.kind \in {"ATOM", "TER"}

\* How many lines the write of a model prints: one for every location of every
\* atom and one for every terminated chain
RECURSIVE SumTo(_, _)
SumTo(f, n) == IF n = 0 THEN 0 ELSE f[n] + SumTo(f, n - 1)

ResidueLineCount(res) ==
    SumTo([i \in 1..Len(res.atoms) |-> Len(res.atoms[i].locations)], Len(res.atoms))

ChainLineCount(chain) ==
    SumTo([i \in 1..Len(chain.residues) |-> ResidueLineCount(chain.residues[i])],
          Len(chain.residues))
    + (IF chain.has_ter_record THEN 1 ELSE 0)

ModelLineCount(model) ==
    SumTo([i \in 1..Len(model.chains) |-> ChainLineCount(model.chains[i])], Len(model.chains))

StructureLineCount(mods) ==
    SumTo([i \in 1..Len(mods) |-> ModelLineCount(mods[i])], Len(mods))

(***************************************************************************)
(* C11.  After write, the output holds the atom and terminator lines of    *)
(* every Model (one per location of every atom, one per terminated chain), *)
(* and their serial numbers count 1, 2, 3, ... within a Model: the first   *)
(* numbered line of a Model carries 1 and every other one the serial of    *)
(* the line before it plus 1, whatever serials were read.                  *)
(***************************************************************************)
C11_WriteRenumbers ==
    WriteEnded
        => /\ pc = "written"
           /\ Cardinality({ i \in 1..Len(output) : Numbered(output[i]) })
                = StructureLineCount(models)
           /\ \A i \in 1..Len(output) :
                 Numbered(output[i])
                    => output[i].serial =
                         IF i > 1 /\ Numbered(output[i - 1])
                         THEN output[i - 1].serial + 1 ELSE 1

(***************************************************************************)
(* C12, C13, C14: the Models of a Structure.                               *)
(***************************************************************************)
\* The step reads an ENDMDL or END line while a Model is open
ModelEndStep ==
    /\ pc = "loading"
    /\ nread' = nread + 1
    /\ pdb_line'.kind \in {"ENDMDL", "END"}
    /\ Len(models) > 0

(***************************************************************************)
(* C12.  In a first-model-only load the first ENDMDL or END line ends the  *)
(* load: the Structure is the one built from the lines up to the marker,   *)
(* finalized; once the load has ended no step reads a line or changes the  *)
(* Models; and a coordinate record never opens a second Model, so a file   *)
(* of MODEL ... ENDMDL blocks gives a Structure of length 1.               *)
(***************************************************************************)
C12_FirstModelOnlyStops ==
    [][ /\ (~load_all_models /\ ModelEndStep)
           => /\ pc' = "done"
              /\ models' = StructureFinalize(models)
        /\ pc = "done"
           => /\ nread' = nread
              /\ models' = models
              /\ models_by_number' = models_by_number
        /\ (~load_all_models /\ CoordinateStep /\ Len(models) > 0)
           => Len(models') = Len(models) ]_vars

\* A first-model-only load of MODEL, one coordinate record, ENDMDL has ended
\* with one Model and with lines of the input left unread
C12_Witness ==
    /\ ~load_all_models
    /\ pc = "done"
    /\ pdb_line.kind = "ENDMDL"
    /\ nread = 3
    /\ nread < nlines
    /\ Len(models) = 1
    /\ Len(models[1].chains) = 1
    /\ ~models[1].chains[1].has_ter_record
    /\ Len(models[1].chains[1].residues) = 1
    /\ Len(models[1].chains[1].residues[1].atoms) = 1

\* The step reads a line of the given kind
ReadsLine(kind) ==
    /\ pc = "loading"
    /\ nread' = nread + 1
    /\ pdb_line'.kind = kind

\* The declared numbers of the Models, in the order of the list
ModelNumbers(mods) == [i \in 1..Len(mods) |-> mods[i].number]

(***************************************************************************)
(* C13.  In a load of all models, a MODEL line appends exactly one Model,  *)
(* empty, after the Models read before it; a coordinate record inside a    *)
(* block (a Model is open and no ENDMDL or END line was read since) opens  *)
(* no Model; an ENDMDL or END line never adds a Model.  So k blocks        *)
(* followed by END give k Models in file order.                            *)
(***************************************************************************)
C13_BlocksMakeModels ==
    [][ /\ ReadsLine("MODEL")
           => /\ Len(models') = Len(models) + 1
              /\ SubSeq(models', 1, Len(models)) = models
              /\ models'[Len(models')].chains = << >>
        /\ (load_all_models /\ CoordinateStep /\ Len(models) > 0 /\ state = "None")
           => /\ Len(models') = Len(models)
              /\ SubSeq(models', 1, Len(models) - 1) = SubSeq(models, 1, Len(models) - 1)
        /\ (ReadsLine("ENDMDL") \/ ReadsLine("END"))
           => ModelNumbers(models') = ModelNumbers(models) ]_vars

\* Two blocks of MODEL, coordinate record, ENDMDL and a final END were read
\* in a load of all models: two Models, numbered in file order, one atom each
C13_Witness ==
    /\ load_all_models
    /\ pc = "loading"
    /\ nread = 7
    /\ pdb_line.kind = "END"
    /\ state = "NEW_MODEL"
    /\ Len(models) = 2
    /\ ModelNumbers(models) = << 0, 1 >>
    /\ \A m \in 1..2 :
          /\ Len(models[m].chains) = 1
          /\ Len(models[m].chains[1].residues) = 1
          /\ Len(models[m].chains[1].residues[1].atoms) = 1

(***************************************************************************)
(* C14.  The declared numbers of the Models of a Structure are pairwise    *)
(* distinct, and the lookup by a Model's declared number gives that Model. *)
(***************************************************************************)
C14_ModelNumbersDistinct ==
    /\ \A i, j \in 1..Len(models) : models[i].number = models[j].number => i = j
    /\ \A i \in 1..Len(models) :
          /\ models[i].number \in DOMAIN models_by_number
          /\ models_by_number[models[i].number] = i

\* Three Models were opened: by a MODEL line, and after an ENDMDL or END line
\* by a coordinate record
C14_Witness ==
    /\ Len(models) = 3
    /\ pdb_line.kind = "ATOM"
    /\ pc = "loading"
    /\ Len(models[1].chains) = 0
    /\ Len(models[2].chains) = 1
    /\ Len(models[3].chains) = 1
    /\ Len(models[3].chains[1].residues[1].atoms) = 1

(***************************************************************************)
(* C15.  Every Atom held by a Residue has the resolved residue number and  *)
(* the insertion code of that Residue, and no coordinate record whose Atom *)
(* was built ends the load with an exception: the two assert statements of *)
(* Residue._add_atom, the only exception left after Atom.__init__, hold.   *)
(***************************************************************************)
C15_AtomsMatchResidue ==
    /\ \A m \in 1..Len(models) :
          \A c \in 1..Len(models[m].chains) :
             \A r \in 1..Len(models[m].chains[c].residues) :
                \A a \in 1..Len(models[m].chains[c].residues[r].atoms) :
                   /\ models[m].chains[c].residues[r].atoms[a].residue_number
                        = models[m].chains[c].residues[r].number
                   /\ models[m].chains[c].residues[r].atoms[a].insertion_code
                        = models[m].chains[c].residues[r].insertion_code
    /\ pc = "aborted" => last_atom = NoAtom

\* A chain holds three Residues in a row opened by a change of the insertion
\* code and then by a change of the number
C15_Witness ==
    /\ pc = "loading"
    /\ HasOpenResidue(models)
    /\ Len(OpenChain(models).residues) >= 3
    /\ LET rs == OpenChain(models).residues
       IN  /\ rs[Len(rs) - 2].number = rs[Len(rs) - 1].number
           /\ rs[Len(rs) - 2].insertion_code # rs[Len(rs) - 1].insertion_code
           /\ rs[Len(rs) - 1].number # rs[Len(rs)].number
           /\ rs[Len(rs)].atoms = << last_atom >>

\* The MODEL and ENDMDL lines of the output, in order
IsModelMarker(line) == line.kind \in {"MODEL", "ENDMDL"}

IsNonEmptyModel(model) == Len(model.chains) > 0

(***************************************************************************)
(* C16.  After write, the output holds exactly one END line, as its last   *)
(* line.  When the Structure holds more than one Model, the output holds   *)
(* for every non-empty Model, in order, a MODEL line with the Model's      *)
(* declared number followed by an ENDMDL line; otherwise it holds no MODEL *)
(* and no ENDMDL line.                                                     *)
(***************************************************************************)
C16_OneEndLineAndModelMarkers ==
    WriteEnded
        => /\ pc = "written"
           /\ Len(output) > 0
           /\ output[Len(output)].kind = "END"
           /\ Cardinality({ i \in 1..Len(output) : output[i].kind = "END" }) = 1
           /\ LET markers == SelectSeq(output, IsModelMarker)
                  written == IF Len(models) > 1 THEN SelectSeq(models, IsNonEmptyModel)
                             ELSE << >>
              IN  /\ Len(markers) = 2 * Len(written)
                  /\ \A i \in 1..Len(written) :
                        /\ markers[2 * i - 1] = [kind |-> "MODEL", number |-> written[i].number]
                        /\ markers[2 * i].kind = "ENDMDL"

(***************************************************************************)
(* C17: the traversals.                                                    *)
(***************************************************************************)
\* The Atoms the Residues of a Model hold, in stored order
HeldAtoms(model) ==
    Flatten([c \in 1..Len(model.chains) |->
                Flatten([r \in 1..Len(model.chains[c].residues) |->
                            model.chains[c].residues[r].atoms])])

\* The Models a traversal covers
TraversedModels ==
    IF yielded.use_all_models \/ Len(models) = 0 THEN models ELSE << models[1] >>

\* The Atoms held by the Residues of the traversed Models, in stored order
TraversedAtoms == Flatten([m \in 1..Len(TraversedModels) |-> HeldAtoms(TraversedModels[m])])

(***************************************************************************)
(* C17.  A traversal of the loaded Structure yields every Atom held by the *)
(* Residues of the traversed Models exactly once, in stored order, and the *)
(* traversal of positions with include_alt_loc = False yields exactly one  *)
(* position, the primary one, for each of these Atoms, in the same order.  *)
(***************************************************************************)
C17_TraversalVisitsEveryAtom ==
    yielded.done
        => /\ yielded.atoms = TraversedAtoms
           /\ ~yielded.include_alt_loc
                 => yielded.positions =
                        [i \in 1..Len(TraversedAtoms) |-> AtomPosition(TraversedAtoms[i])]

(***************************************************************************)
(* C18: the lookups by key.                                                *)
(***************************************************************************)
\* table maps every key of the objects of list to the first object under it;
\* Keys(o) is the set of keys object o is inserted under
FirstWins(table, list, Keys(_)) ==
    /\ DOMAIN table = UNION { Keys(list[i]) : i \in 1..Len(list) }
    /\ \A k \in DOMAIN table :
          /\ table[k] \in 1..Len(list)
          /\ k \in Keys(list[table[k]])
          /\ \A i \in 1..Len(list) : k \in Keys(list[i]) => table[k] <= i

NumberKey(res) == { res.number }

NumberIcodeKey(res) == { << res.number, res.insertion_code >> }

ChainIdKey(chain) == { chain.chain_id }

(***************************************************************************)
(* C18.  Every lookup table of the tree maps a key to the first object     *)
(* inserted under it: residues_by_number and residues_by_num_icode of a    *)
(* Chain, chains_by_id of a Model, atoms_by_name of a Residue.             *)
(***************************************************************************)
C18_LookupsReturnFirst ==
    \A m \in 1..Len(models) :
        /\ FirstWins(models[m].chains_by_id, models[m].chains, ChainIdKey)
        /\ \A c \in 1..Len(models[m].chains) :
              /\ FirstWins(models[m].chains[c].residues_by_number,
                           models[m].chains[c].residues, NumberKey)
              /\ FirstWins(models[m].chains[c].residues_by_num_icode,
                           models[m].chains[c].residues, NumberIcodeKey)
              /\ \A r \in 1..Len(models[m].chains[c].residues) :
                    FirstWins(models[m].chains[c].residues[r].atoms_by_name,
                              models[m].chains[c].residues[r].atoms, AtomKeys)

\* The lookups of Chains and Residues alone
C18_ChainAndResidueLookups ==
    \A m \in 1..Len(models) :
        /\ FirstWins(models[m].chains_by_id, models[m].chains, ChainIdKey)
        /\ \A c \in 1..Len(models[m].chains) :
              /\ FirstWins(models[m].chains[c].residues_by_number,
                           models[m].chains[c].residues, NumberKey)
              /\ FirstWins(models[m].chains[c].residues_by_num_icode,
                           models[m].chains[c].residues, NumberIcodeKey)


(***************************************************************************)
(* C19: the hybrid decoder of residue and atom numbers.                    *)
(***************************************************************************)
\* Hybrid tokens past the first ones of the tables
HybridResidueToken == << "B","1","2","Z" >>
HybridAtomToken == << "B","1","2","3","Z" >>

\* Coordinate lines whose serial and residue-number fields are decimal, the
\* first hybrid tokens, later hybrid tokens, or the first hexadecimal tokens
HybridLines ==
    { AtomRecord(t[1], NameN, " ", ALA, "A", t[2]) :
        t \in { << Serial99999, Seq9999 >>,
                << ChimeraAtomKey, ChimeraResidueKey >>,
                << HybridAtomToken, HybridResidueToken >>,
                << Serial1, ChimeraResidueKey >>,
                << ChimeraAtomKey, Seq1 >>,
                << Serial1, HexResidueKey >>,
                << HexAtomKey, Seq1 >> } }

NextHybrid ==
    \/ \E line \in HybridLines : AtomLine(line)
    \/ ModelLine(MODEL)
    \/ EndmdlLine(ENDMDL)
    \/ EndOfInput

SpecHybrid == Init /\ [][NextHybrid]_vars

\* The value of one base-36 digit, capital or small
Base36(c) == CHOOSE n \in 0..35 : UpperDigits[n + 1] = c \/ LowerDigits[n + 1] = c

\* Every character of the token is a base-36 digit
IsBase36Token(t) ==
    \A i \in 1..Len(t) : \E n \in 1..36 : UpperDigits[n] = t[i] \/ LowerDigits[n] = t[i]

\* base36(c) * 1000 + base36(d1 d2 d3)
HybridResidueValue(t) ==
    Base36(t[1]) * 1000 + (Base36(t[2]) * 36 * 36 + Base36(t[3]) * 36 + Base36(t[4]))

\* base36(c) * 10000 + base36(d1 d2 d3 d4)
HybridAtomValue(t) ==
    Base36(t[1]) * 10000
      + (Base36(t[2]) * 36 * 36 * 36 + Base36(t[3]) * 36 * 36 + Base36(t[4]) * 36 + Base36(t[5]))

\* The step resolves the token "A000" with the residue counter past 9999 and
\* the residue mode unlocked
FirstHybridResidueStep ==
    /\ ResolvedStep
    /\ pdb_line'.resseq = ChimeraResidueKey
    /\ next_residue_number > ResidueCeiling
    /\ residue_num_nondec_mode = "none"

\* The step resolves a residue token of base-36 digits with the hybrid decoder:
\* the decoder is locked after the step
HybridResidueStep ==
    /\ ResolvedStep
    /\ IsBase36Token(pdb_line'.resseq)
    /\ residue_num_nondec_mode' = "chimera"

\* The step resolves an atom token of base-36 digits with the hybrid decoder
HybridAtomStep ==
    /\ ResolvedStep
    /\ IsBase36Token(pdb_line'.serial)
    /\ atom_num_nondec_mode' = "chimera"

(***************************************************************************)
(* C19.  With the residue counter past 9999 and the residue mode unlocked, *)
(* the token "A000" resolves to exactly 10000 and locks the hybrid         *)
(* decoder; a residue token c d1 d2 d3 resolved by the hybrid decoder      *)
(* gives base36(c) * 1000 + base36(d1 d2 d3), and an atom token            *)
(* c d1 d2 d3 d4 gives base36(c) * 10000 + base36(d1 d2 d3 d4).            *)
(***************************************************************************)
C19_HybridDecoding ==
    [][ /\ FirstHybridResidueStep
            => /\ last_atom'.residue_number = 10000
               /\ residue_num_nondec_mode' = "chimera"
        /\ HybridResidueStep
            => last_atom'.residue_number = HybridResidueValue(pdb_line'.resseq)
        /\ HybridAtomStep
            => last_atom'.serial_number = HybridAtomValue(pdb_line'.serial) ]_vars

\* Three records were read: decimal 99999 / 9999, then "A0000" / "A000" resolved
\* to 100000 / 10000 with both hybrid decoders locked, then "B123Z" / "B12Z"
\* resolved to 159391 / 12403
C19_Witness ==
    /\ pc = "loading"
    /\ nread = 3
    /\ pdb_line.kind = "ATOM"
    /\ pdb_line.resseq = HybridResidueToken
    /\ pdb_line.serial = HybridAtomToken
    /\ residue_num_nondec_mode = "chimera"
    /\ atom_num_nondec_mode = "chimera"
    /\ last_atom # NoAtom
    /\ last_atom.residue_number = 12403
    /\ last_atom.serial_number = 159391
    /\ HasOpenResidue(models)
    /\ Len(OpenChain(models).residues) = 3
    /\ OpenChain(models).residues[1].number = 9999
    /\ OpenChain(models).residues[2].number = 10000
    /\ OpenChain(models).residues[2].atoms[1].serial_number = 100000

(***************************************************************************)
(* C20: the hybrid decoders as functions of a token.                       *)
(***************************************************************************)
\* The high components and the base-36 digits the low components are made of
HighComponents == 0..35
LowDigits == {0, 1, 9, 10, 35}

\* The low components of k base-36 digits drawn from LowDigits
LowComponents(k) ==
    IF k = 3
    THEN { a * 36 * 36 + b * 36 + c : a \in LowDigits, b \in LowDigits, c \in LowDigits }
    ELSE { a * 36 * 36 * 36 + b * 36 * 36 + c * 36 + d :
             a \in LowDigits, b \in LowDigits, c \in LowDigits, d \in LowDigits }

\* The k-digit base-36 form of l, most significant digit first
RECURSIVE Base36Form(_, _)
Base36Form(l, k) ==
    IF k = 0 THEN << >>
    ELSE Append(Base36Form(l \div 36, k - 1), UpperDigits[(l % 36) + 1])

\* The token of the high component h and the low component l of k digits
HybridEncode(h, l, k) == << UpperDigits[h + 1] >> \o Base36Form(l, k)

\* The tokens handed to a decoder of k + 1 characters: k = 4 for the atom
\* table, 3 for the residue table
DecoderInputsOf(k) ==
    { [done |-> FALSE, k |-> k, high |-> h, low |-> l, token |-> HybridEncode(h, l, k)] :
        h \in HighComponents, l \in LowComponents(k) }

DecoderInputs == DecoderInputsOf(3) \cup DecoderInputsOf(4)

InitDecoder == Constructed /\ nlines = 0 /\ decoded \in DecoderInputs

\* _atom_num_initial_nondecimal_functions["A0000"](token)
DecodeAtomToken ==
    /\ ~decoded.done
    /\ decoded.k = 4
    /\ decoded' = [decoded EXCEPT !.done = TRUE] @@ [result |-> ChimeraDecode(decoded.token, 4)]
    /\ UNCHANGED << models, models_by_number, atom_num_nondec_mode, residue_num_nondec_mode,
                    next_atom_number, next_residue_number, unit_cell, load_all_models,
                    state, pdb_line, last_atom, diags, nread, pc, nlines, output, yielded >>

\* _residue_num_initial_nondecimal_functions["A000"](token)
DecodeResidueToken ==
    /\ ~decoded.done
    /\ decoded.k = 3
    /\ decoded' = [decoded EXCEPT !.done = TRUE] @@ [result |-> ChimeraDecode(decoded.token, 3)]
    /\ UNCHANGED << models, models_by_number, atom_num_nondec_mode, residue_num_nondec_mode,
                    next_atom_number, next_residue_number, unit_cell, load_all_models,
                    state, pdb_line, last_atom, diags, nread, pc, nlines, output, yielded >>

NextDecoder == DecodeAtomToken \/ DecodeResidueToken

SpecDecoder == InitDecoder /\ [][NextDecoder]_vars

(***************************************************************************)
(* C20.  For every high component h in 0..35 and every low component l of  *)
(* k base-36 digits (k = 4 for atoms, 3 for residues), the hybrid decoder  *)
(* applied to the token made of the base-36 digit of h and the k-digit     *)
(* base-36 form of l returns h * 10^k + l.                                 *)
(***************************************************************************)
C20_DecoderRoundTrip ==
    decoded.done
        => /\ decoded.result.ok
           /\ decoded.result.val =
                 decoded.high * (IF decoded.k = 3 THEN 1000 ELSE 10000) + decoded.low

\* The atom decoder returned 35 * 10000 + (36^4 - 1) for the token "ZZZZZ"
C20_Witness ==
    /\ decoded.done
    /\ decoded.k = 4
    /\ decoded.high = 35
    /\ decoded.low = 1679615
    /\ decoded.token = << "Z","Z","Z","Z","Z" >>
    /\ decoded.result = Value(2029615)

(***************************************************************************)
(* C21: which lines reset the scopes of the resolver.                      *)
(***************************************************************************)
Serial0 == << " "," "," "," ","0" >>
Seq0 == << " "," "," ","0" >>

CRYST1 == [kind |-> "CRYST1", cell |-> << 1, 1, 1, 90, 90, 90 >>]

\* CONECT lines of one atom number: a decimal one and the unreadable "*****"
ConectRecords ==
    { [kind |-> "CONECT", fields |-> << t >>] : t \in {Serial1, OverflowAtomKey} }

\* Coordinate lines whose numbers are decimal (2 and 0), the first tokens of
\* the hexadecimal and hybrid decoders, and unreadable
ScopeLines ==
    { AtomRecord(t[1], NameN, " ", ALA, "A", t[2]) :
        t \in { << Serial1, Seq2 >>,
                << Serial0, Seq0 >>,
                << HexAtomKey, ChimeraResidueKey >>,
                << OverflowAtomKey, OverflowResidueKey >> } }

NextScopes ==
    \/ \E line \in ScopeLines : AtomLine(line)
    \/ TerLine(TER)
    \/ ModelLine(MODEL)
    \/ EndmdlLine(ENDMDL)
    \/ EndLine(END)
    \/ Cryst1Line(CRYST1)
    \/ \E line \in ConectRecords : ConectLine(line)
    \/ EndOfInput

SpecScopes == Init /\ [][NextScopes]_vars

\* The step reads a TER line that _load acts on without raising
TerStep ==
    /\ ReadsLine("TER")
    /\ pdb_line'.words[1] = "TER"
    /\ pc' = "loading"

\* The step returns a locked atom mode, or a locked residue mode, to unlocked
AtomModeUnlocked == atom_num_nondec_mode # "none" /\ atom_num_nondec_mode' = "none"
ResidueModeUnlocked == residue_num_nondec_mode # "none" /\ residue_num_nondec_mode' = "none"

\* The step sets the atom counter, or the residue counter, back to 1
AtomCounterBackTo1 == next_atom_number # 1 /\ next_atom_number' = 1
ResidueCounterBackTo1 == next_residue_number # 1 /\ next_residue_number' = 1

\* A MODEL line resets both scopes, a TER line the residue scope and nothing
\* of the atom scope
MarkersReset ==
    /\ ReadsLine("MODEL")
        => /\ next_atom_number' = 1 /\ atom_num_nondec_mode' = "none"
           /\ next_residue_number' = 1 /\ residue_num_nondec_mode' = "none"
    /\ TerStep
        => /\ next_residue_number' = 1 /\ residue_num_nondec_mode' = "none"
    /\ ReadsLine("TER") => UNCHANGED << next_atom_number, atom_num_nondec_mode >>

(***************************************************************************)
(* C21 as claimed.  The scopes are reset only by a MODEL line (both) and   *)
(* by a TER line (residue scope only, the atom counter and the atom mode   *)
(* stay); no other line returns a locked mode to unlocked or sets a        *)
(* counter back to 1.                                                      *)
(***************************************************************************)
C21_Claimed ==
    [][ /\ MarkersReset
        /\ ~ReadsLine("MODEL") => ~AtomModeUnlocked /\ ~AtomCounterBackTo1
        /\ (~ReadsLine("MODEL") /\ ~ReadsLine("TER"))
              => ~ResidueModeUnlocked /\ ~ResidueCounterBackTo1 ]_vars

(***************************************************************************)
(* C21, amended.  A MODEL line resets both scopes and a TER line the       *)
(* residue scope only; no other line returns a locked mode to unlocked,    *)
(* and a counter changes otherwise only when a coordinate record is        *)
(* resolved, to the resolved number + 1, which is 1 for a record numbered  *)
(* 0.                                                                      *)
(***************************************************************************)
C21_ResetsOnlyAtMarkers ==
    [][ /\ MarkersReset
        /\ ~ReadsLine("MODEL")
              => /\ ~AtomModeUnlocked
                 /\ next_atom_number' # next_atom_number
                       => ResolvedStep /\ next_atom_number' = last_atom'.serial_number + 1
        /\ (~ReadsLine("MODEL") /\ ~ReadsLine("TER"))
              => /\ ~ResidueModeUnlocked
                 /\ next_residue_number' # next_residue_number
                       => ResolvedStep
                          /\ next_residue_number' = last_atom'.residue_number + 1 ]_vars

\* A TER line was read after "186a0" / "A000" locked both decoders: the atom
\* mode and the atom counter are kept, the residue scope is fresh
C21_Witness ==
    /\ pc = "loading"
    /\ pdb_line.kind = "TER"
    /\ atom_num_nondec_mode = "hex"
    /\ next_atom_number = 100001
    /\ residue_num_nondec_mode = "none"
    /\ next_residue_number = 1
    /\ HasOpenResidue(models)
    /\ OpenChain(models).has_ter_record
    /\ OpenResidue(models).number = 10000

(***************************************************************************)
(* C22: a token that does not fit the locked decoder.                      *)
(***************************************************************************)
\* The token is a numeral of the decoder: base 16 as a whole, or a base-36
\* character followed by a base-36 numeral
FitsDecoder(mode, token) ==
    IF mode = "hex" THEN PyInt(token, 16).ok
    ELSE PyInt(<< token[1] >>, 36).ok /\ PyInt(Tail(token), 36).ok

\* How many diagnostics named w the sequence d holds
CountOf(d, w) == Cardinality({ i \in 1..Len(d) : d[i] = w })

\* The step resolves a serial field that does not fit the locked atom decoder
UnfitSerialStep ==
    /\ ResolvedStep
    /\ atom_num_nondec_mode \in {"hex", "chimera"}
    /\ ~FitsDecoder(atom_num_nondec_mode, pdb_line'.serial)

\* The step resolves a residue-number field that does not fit the locked
\* residue decoder
UnfitResidueStep ==
    /\ ResolvedStep
    /\ residue_num_nondec_mode \in {"hex", "chimera"}
    /\ ~FitsDecoder(residue_num_nondec_mode, pdb_line'.resseq)

\* The step reads a CONECT line whose single field does not fit the locked
\* atom decoder
UnfitConectStep ==
    /\ ReadsLine("CONECT")
    /\ atom_num_nondec_mode \in {"hex", "chimera"}
    /\ Len(pdb_line'.fields) = 1
    /\ ~FitsDecoder(atom_num_nondec_mode, pdb_line'.fields[1])

\* The Models the resolver of the step's record sees: line 396 opened a new
\* Model before the record is parsed
ModelsAtParse ==
    IF state = "NEW_MODEL" THEN AddModel(models, models[Len(models)].number + 1) ELSE models

\* A mode is never changed from base 16 to hybrid or back
NeverBetweenDecoders(before, after) ==
    /\ ~(before = "hex" /\ after = "chimera")
    /\ ~(before = "chimera" /\ after = "hex")

(***************************************************************************)
(* C22.  When a base-16 or hybrid decoder is locked and a token does not   *)
(* fit it, the mode becomes the sequential guess, exactly one diagnostic   *)
(* is emitted for the token and the sequential guess is returned; the      *)
(* sequential-guess mode then stays until a MODEL line (or, for residues,  *)
(* a TER line) resets the scope, and no mode changes between base 16 and   *)
(* hybrid.                                                                 *)
(***************************************************************************)
C22_UnfitTokenFallsBack ==
    [][ /\ UnfitSerialStep
            => /\ atom_num_nondec_mode' = "overflow"
               /\ CountOf(diags', "guess_atom_number") = 1
               /\ last_atom'.serial_number = next_atom_number
        /\ UnfitResidueStep
            => /\ residue_num_nondec_mode' = "overflow"
               /\ CountOf(diags', "guess_residue_number") = 1
               /\ last_atom'.residue_number =
                     overflow_residue_check(ModelsAtParse, next_residue_number,
                                            pdb_line'.name, last_atom'.residue_name_with_spaces)
        /\ UnfitConectStep
            => /\ atom_num_nondec_mode' = "overflow"
               /\ diags' = << "guess_atom_number" >>
               /\ pc' = "loading"
                     => models'[Len(models')].connects[Len(models'[Len(models')].connects)]
                           = << next_atom_number >>
        /\ (atom_num_nondec_mode = "overflow" /\ ~ReadsLine("MODEL"))
            => atom_num_nondec_mode' = "overflow"
        /\ (residue_num_nondec_mode = "overflow" /\ ~ReadsLine("MODEL") /\ ~TerStep)
            => residue_num_nondec_mode' = "overflow"
        /\ NeverBetweenDecoders(atom_num_nondec_mode, atom_num_nondec_mode')
        /\ NeverBetweenDecoders(residue_num_nondec_mode, residue_num_nondec_mode') ]_vars

\* "186a0" / "A000" locked both decoders, "*****" / "****" fitted neither, and
\* a third record was resolved by the sequential guess without a diagnostic
C22_Witness ==
    /\ pc = "loading"
    /\ nread = 3
    /\ pdb_line.kind = "ATOM"
    /\ pdb_line.serial = Serial0
    /\ atom_num_nondec_mode = "overflow"
    /\ residue_num_nondec_mode = "overflow"
    /\ diags = << >>
    /\ last_atom # NoAtom
    /\ last_atom.serial_number = 100002
    /\ HasOpenResidue(models)
    /\ Len(OpenChain(models).residues) >= 2
    /\ OpenChain(models).residues[1].number = 10000
    /\ OpenChain(models).residues[1].atoms[1].serial_number = 100000
    /\ OpenChain(models).residues[2].atoms[1].serial_number = 100001

(***************************************************************************)
(* C23: the sequential guess of a residue number.                          *)
(***************************************************************************)
\* Coordinate lines with an unreadable residue number that differ in atom
\* name, residue name and chain, and one line with a decimal residue number
GuessLines ==
    { AtomRecord(Serial1, n, " ", r, c, OverflowResidueKey) :
        n \in {NameN, NameCA}, r \in {ALA, GLY}, c \in {"A", "B"} }
    \cup { AtomRecord(Serial1, NameN, " ", ALA, "A", Seq2) }

NextGuess ==
    \/ \E line \in GuessLines : AtomLine(line)
    \/ TerLine(TER)
    \/ EndOfInput

SpecGuess == Init /\ [][NextGuess]_vars

\* The step resolves a residue number with the sequential-guess decoder
GuessedResidueStep ==
    /\ ResolvedStep
    /\ residue_num_nondec_mode' = "overflow"

\* The Chain that receives the record of the step is the open one: a Residue
\* is open on it, it has the chain id of the record and no TER record
ReceivingChainIsOpen ==
    /\ state # "NEW_MODEL"
    /\ HasOpenResidue(models)
    /\ OpenChain(models).chain_id = pdb_line'.chain
    /\ ~OpenChain(models).has_ter_record

\* The guess for the record of the step against the Residue res: the counter
\* if the residue name differs or the atom name is in the atom table of res,
\* else the number of res
GuessAgainst(res) ==
    IF \/ ResidueName(res) # last_atom'.residue_name_with_spaces
       \/ pdb_line'.name \in DOMAIN res.atoms_by_name
    THEN next_residue_number
    ELSE res.number

(***************************************************************************)
(* C23.  The sequential guess of a residue number is the residue counter   *)
(* if no Residue is open on the Chain that will receive the atom, if the   *)
(* open Residue's name differs from the atom's residue name, or if the     *)
(* atom's name is in the open Residue's atom table; else it is the open    *)
(* Residue's number.                                                       *)
(***************************************************************************)
C23_GuessFromReceivingChain ==
    [][ GuessedResidueStep
          => last_atom'.residue_number =
                IF ReceivingChainIsOpen THEN GuessAgainst(OpenResidue(models))
                ELSE next_residue_number ]_vars

\* The guess as the code computes it: against the last Residue of the last
\* Chain of the current Model, whichever Chain receives the atom
C23_GuessFromLastChain ==
    [][ GuessedResidueStep
          => last_atom'.residue_number =
                IF state # "NEW_MODEL" /\ HasOpenResidue(models)
                THEN GuessAgainst(OpenResidue(models))
                ELSE next_residue_number ]_vars

(***************************************************************************)
(* C24: the sequential guess of an atom number.                            *)
(***************************************************************************)
\* The step resolves a serial number with the sequential-guess decoder
GuessedSerialStep ==
    /\ ResolvedStep
    /\ atom_num_nondec_mode' = "overflow"

\* The Atom stored last in the open Residue
LastStoredAtom == OpenResidue(models).atoms[Len(OpenResidue(models).atoms)]

(***************************************************************************)
(* C24.  A coordinate record resolved while the atom mode is the           *)
(* sequential guess gets the atom counter as its serial number whatever    *)
(* its token is, and so the serial number of the coordinate record         *)
(* before it in the scope + 1.                                             *)
(***************************************************************************)
C24_SequentialSerials ==
    [][ GuessedSerialStep
          => /\ last_atom'.serial_number = next_atom_number
             /\ last_atom # NoAtom
                   => last_atom'.serial_number = last_atom.serial_number + 1
             /\ (HasOpenResidue(models) /\ Len(OpenResidue(models).atoms) > 0)
                   => last_atom'.serial_number = LastStoredAtom.serial_number + 1 ]_vars

\* Three records with the serial fields "*****", "    1" and "    0" were
\* resolved to 1, 2 and 3
C24_Witness ==
    /\ pc = "loading"
    /\ nread = 3
    /\ atom_num_nondec_mode = "overflow"
    /\ pdb_line.kind = "ATOM"
    /\ pdb_line.serial = Serial0
    /\ last_atom # NoAtom
    /\ last_atom.serial_number = 3
    /\ next_atom_number = 4
    /\ HasOpenResidue(models)
    /\ Len(OpenChain(models).residues) = 3
    /\ OpenChain(models).residues[1].atoms[1].serial_number = 1
    /\ OpenChain(models).residues[2].atoms[1].serial_number = 2

(***************************************************************************)
(* C25.  After every coordinate record parsed with its Structure, the atom *)
(* counter is the record's resolved serial number + 1 and the residue      *)
(* counter its resolved residue number + 1; a step that parses no          *)
(* coordinate record leaves a counter as it is or resets it to 1.          *)
(***************************************************************************)
C25_CountersFollowResolved ==
    [][ /\ ResolvedStep
            => /\ next_atom_number' = last_atom'.serial_number + 1
               /\ next_residue_number' = last_atom'.residue_number + 1
        /\ ~ResolvedStep
            => /\ next_atom_number' \in {next_atom_number, 1}
               /\ next_residue_number' \in {next_residue_number, 1} ]_vars

\* Two records were parsed, the second with the fields "186a0" and "A000":
\* the counters are 100001 and 10001
C25_Witness ==
    /\ pc = "loading"
    /\ nread = 2
    /\ pdb_line.kind = "ATOM"
    /\ pdb_line.serial = HexAtomKey
    /\ pdb_line.resseq = ChimeraResidueKey
    /\ last_atom # NoAtom
    /\ last_atom.serial_number = 100000
    /\ last_atom.residue_number = 10000
    /\ next_atom_number = 100001
    /\ next_residue_number = 10001
    /\ HasOpenResidue(models)
    /\ Len(OpenChain(models).residues) = 2
    /\ OpenChain(models).residues[1].number = 2

(***************************************************************************)
(* C26: the first overflow token of a scope that is no exact sentinel.     *)
(***************************************************************************)
\* The step resolves, with the atom mode unlocked, a serial field that is no
\* key of the atom table and starts with a capital letter
FirstSerialGuessStep ==
    /\ ResolvedStep
    /\ atom_num_nondec_mode = "none"
    /\ atom_num_initial_nondecimal_functions(pdb_line'.serial) = "none"
    /\ IsUpperLetter(pdb_line'.serial[1])

\* The step resolves, with the residue mode unlocked, a residue-number field
\* that is no key of the residue table and starts with a capital letter
FirstResidueGuessStep ==
    /\ ResolvedStep
    /\ residue_num_nondec_mode = "none"
    /\ residue_num_initial_nondecimal_functions(pdb_line'.resseq) = "none"
    /\ IsUpperLetter(pdb_line'.resseq[1])

(***************************************************************************)
(* C26.  When the first overflow token of a scope is no exact sentinel but *)
(* starts with an uppercase letter, the hybrid decoder is locked as a      *)
(* guess, a diagnostic is emitted for the guess, and parsing continues.    *)
(***************************************************************************)
C26_FirstGuessDiagnosed ==
    [][ /\ FirstSerialGuessStep
            => /\ atom_num_nondec_mode' = "chimera"
               /\ CountOf(diags', "guess_atom_number") >= 1
               /\ pc' = "loading"
        /\ FirstResidueGuessStep
            => /\ residue_num_nondec_mode' = "chimera"
               /\ CountOf(diags', "guess_residue_number") >= 1
               /\ pc' = "loading" ]_vars

\* What the code does on these records: the hybrid decoder is locked and
\* parsing continues, with no diagnostic
C26_FirstGuessSilent ==
    [][ /\ FirstSerialGuessStep
            => /\ atom_num_nondec_mode' = "chimera"
               /\ CountOf(diags', "guess_atom_number") = 0
               /\ pc' = "loading"
        /\ FirstResidueGuessStep
            => /\ residue_num_nondec_mode' = "chimera"
               /\ CountOf(diags', "guess_residue_number") = 0
               /\ pc' = "loading" ]_vars

(***************************************************************************)
(* C27: which lines that start with TER end the Chain.                     *)
(***************************************************************************)
\* Lines that start with TER besides the keyword alone: the keyword followed
\* by a serial number, residue name, chain id and residue number, and a longer
\* first word
TerWithFields == [kind |-> "TER", words |-> << "TER", "2", "ALA", "A", "2" >>]
TerLongerWord == [kind |-> "TER", words |-> << "TERM" >>]

\* Coordinate lines of one chain with a decimal and an unreadable residue number
TerAtomLines ==
    { AtomRecord(Serial1, n, " ", ALA, "A", t) :
        n \in {NameN, NameCA}, t \in {Seq2, OverflowResidueKey} }

NextTer ==
    \/ \E line \in TerAtomLines : AtomLine(line)
    \/ \E line \in {TER, TerWithFields, TerLongerWord} : TerLine(line)
    \/ EndOfInput

SpecTer == Init /\ [][NextTer]_vars

\* The step marks the open Chain terminated and resets the residue scope
ChainTerminated ==
    /\ HasOpenResidue(models')
    /\ OpenChain(models').has_ter_record
    /\ residue_num_nondec_mode' = "none"
    /\ next_residue_number' = 1

\* The step reads a line that starts with TER while a Chain is open
TerLineOnChain ==
    /\ ReadsLine("TER")
    /\ Len(models) > 0
    /\ Len(models[Len(models)].chains) > 0

(***************************************************************************)
(* C27 as claimed.  A line that starts with TER marks the current Chain    *)
(* terminated and resets the residue scope only when TER is the sole token *)
(* of the line; with further tokens the terminator flag and the residue    *)
(* scope are unchanged.                                                    *)
(***************************************************************************)
C27_Claimed ==
    [][ TerLineOnChain
          => IF pdb_line'.words = << "TER" >>
             THEN ChainTerminated
             ELSE UNCHANGED << models, residue_num_nondec_mode, next_residue_number >> ]_vars

(***************************************************************************)
(* C27, amended.  A line that starts with TER marks the current Chain      *)
(* terminated and resets the residue scope when its first                  *)
(* whitespace-separated token is exactly TER, whatever tokens follow; when *)
(* the first token is longer the terminator flag and the residue scope     *)
(* are unchanged.                                                          *)
(***************************************************************************)
C27_TerIsFirstToken ==
    [][ TerLineOnChain
          => IF pdb_line'.words[1] = "TER"
             THEN ChainTerminated
             ELSE UNCHANGED << models, residue_num_nondec_mode, next_residue_number >> ]_vars

\* A TER line with further tokens was read after a record of residue 2: the
\* Chain is terminated and the residue counter is back to 1
C27_Witness ==
    /\ pc = "loading"
    /\ pdb_line = TerWithFields
    /\ HasOpenResidue(models)
    /\ OpenChain(models).has_ter_record
    /\ OpenResidue(models).number = 2
    /\ OpenResidue(models).is_final_in_chain
    /\ next_residue_number = 1
    /\ residue_num_nondec_mode = "none"

(***************************************************************************)
(* C28: the declared numbers of the Models.                                *)
(***************************************************************************)
\* A MODEL line with another number field
MODEL7 == [kind |-> "MODEL", number |-> 7]

NextNumbered ==
    \/ AtomLine(BlockAtom)
    \/ \E line \in {MODEL, MODEL7} : ModelLine(line)
    \/ EndmdlLine(ENDMDL)
    \/ EndOfInput

SpecNumbered == InitBlocks /\ [][NextNumbered]_vars

(***************************************************************************)
(* C28.  The Model at 0-based position i of the list has the declared      *)
(* number i, whatever the number fields of the MODEL lines are and         *)
(* whether the Model was opened by a MODEL line, by a first coordinate     *)
(* record, or by a coordinate record after an ENDMDL line.                 *)
(***************************************************************************)
C28_NumberIsPosition ==
    \A i \in 1..Len(models) : models[i].number = i - 1

\* Five lines were read: a coordinate record opened Model 0, a MODEL line
\* with number field 7 opened Model 1, which an ENDMDL line finalized, and a
\* coordinate record opened Model 2
C28_Witness ==
    /\ pc = "loading"
    /\ nread = 5
    /\ pdb_line.kind = "ATOM"
    /\ Len(models) = 3
    /\ ModelNumbers(models) = << 0, 1, 2 >>
    /\ \A m \in 1..3 :
          /\ Len(models[m].chains) = 1
          /\ Len(models[m].chains[1].residues) = 1
    /\ ~models[1].chains[1].residues[1].is_final_in_chain
    /\ models[2].chains[1].residues[1].is_final_in_chain
    /\ ~models[3].chains[1].residues[1].is_final_in_chain

(***************************************************************************)
(* C29.  A load of the first Model only (load_all_models = False) leaves a *)
(* Structure of at most one Model, whatever the lines of the input are,    *)
(* also when a MODEL line is read before an ENDMDL line closed the Model   *)
(* before it.                                                              *)
(***************************************************************************)
C29_FirstModelOnlyHoldsOneModel ==
    ~load_all_models => Len(models) <= 1

(***************************************************************************)
(* C30: the lines an Atom writes.                                          *)
(***************************************************************************)
\* The Atoms of the Structure, in stored order
AllHeldAtoms == Flatten([m \in 1..Len(models) |-> HeldAtoms(models[m])])

\* The place of an alternate-location id in ascending order
LocationRank(id) == CHOOSE k \in 1..3 : << " ", "A", "B" >>[k] = id

\* The alternate-location ids an Atom holds, in ascending order
LocationIds(atom) == { atom.locations[i].alt_loc : i \in 1..Len(atom.locations) }

AscendingIds(atom) ==
    CHOOSE s \in [1..Cardinality(LocationIds(atom)) -> LocationIds(atom)] :
        \A i, j \in 1..Cardinality(LocationIds(atom)) :
            i < j => LocationRank(s[i]) < LocationRank(s[j])

\* The name and the alternate-location id of the lines the Atoms are to write
LinesOfAtom(atom) ==
    [k \in 1..Cardinality(LocationIds(atom)) |-> << atom.name_with_spaces, AscendingIds(atom)[k] >>]

IsAtomOutput(line) == line.kind = "ATOM"

(***************************************************************************)
(* C30.  The write of a Structure that holds at least one Atom, with the   *)
(* default settings, completes without error; every Atom gives one line    *)
(* per alternate-location id it holds, in ascending order of the ids, and  *)
(* the serial number advances by one from each of these lines to the next  *)
(* line of the Model.                                                      *)
(***************************************************************************)
C30_WriteOneLinePerLocation ==
    (WriteEnded /\ Len(AllHeldAtoms) > 0)
        => /\ pc = "written"
           /\ [i \in 1..Len(SelectSeq(output, IsAtomOutput)) |->
                 << SelectSeq(output, IsAtomOutput)[i].name,
                    SelectSeq(output, IsAtomOutput)[i].altloc >>]
                = Flatten([a \in 1..Len(AllHeldAtoms) |-> LinesOfAtom(AllHeldAtoms[a])])
           /\ \A i \in 1..(Len(output) - 1) :
                 (output[i].kind = "ATOM" /\ Numbered(output[i + 1]))
                    => output[i + 1].serial = output[i].serial + 1

(***************************************************************************)
(* C31: unreadable serial and residue-number fields.                       *)
(***************************************************************************)
Blank5 == << " "," "," "," "," " >>
Blank4 == << " "," "," "," " >>
JunkSerial == << "Z","?","?","?","?" >>
JunkSeq == << "Z","?","?","?" >>
LowerZSerial == << "z","z","z","z","z" >>
Misaligned == << "A","L"," ","X" >>

\* Coordinate lines whose serial and residue-number fields are decimal, the
\* first tokens of the hexadecimal and hybrid decoders, blank, or junk; a line
\* with an unparsable coordinate and a line with a misaligned residue name
UnreadableLines ==
    { AtomRecord(t[1], NameN, " ", ALA, "A", t[2]) :
        t \in { << Serial1, Seq2 >>,
                << HexAtomKey, ChimeraResidueKey >>,
                << ChimeraAtomKey, Blank4 >>,
                << Blank5, Seq2 >>,
                << JunkSerial, JunkSeq >>,
                << LowerZSerial, Blank4 >> } }
    \cup { [AtomRecord(JunkSerial, NameN, " ", ALA, "A", JunkSeq) EXCEPT !.xyz = "bad"],
           AtomRecord(Blank5, NameN, " ", Misaligned, "A", Blank4) }

\* CONECT lines of two atom numbers, the second one blank or junk
UnreadableConects ==
    { [kind |-> "CONECT", fields |-> << Serial1, t >>] : t \in {Blank5, JunkSerial} }

NextUnreadable ==
    \/ \E line \in UnreadableLines : AtomLine(line)
    \/ \E line \in UnreadableConects : ConectLine(line)
    \/ ModelLine(MODEL)
    \/ EndOfInput

SpecUnreadable == Init /\ [][NextUnreadable]_vars

\* No decoder reads the token: int() fails on it in base 10 and 16, and the
\* hybrid decoder of width k + 1 fails on it
NoDecoderReads(s, k) ==
    /\ ~PyInt(s, 10).ok
    /\ ~HexDecode(s).ok
    /\ ~ChimeraDecode(s, k).ok

\* The coordinate record of the step has an unparsable coordinate or a
\* misaligned residue name
BrokenRecord ==
    \/ pdb_line'.xyz = "bad"
    \/ ~ParseResidueName(pdb_line'.resname).ok

\* The step reads a coordinate record: the load goes on unless the record is
\* broken, and then the Atom has integer numbers, a serial no decoder reads
\* being the atom counter read in the sequential-guess mode
UnreadableFieldsAbsorbed ==
    ReadsLine("ATOM") =>
        /\ pc' = "aborted" <=> BrokenRecord
        /\ pc' = "loading" =>
              /\ last_atom' # NoAtom
              /\ last_atom'.serial_number \in Int
              /\ last_atom'.residue_number \in Int
              /\ NoDecoderReads(pdb_line'.serial, 4) =>
                    /\ last_atom'.serial_number = next_atom_number
                    /\ atom_num_nondec_mode' = "overflow"
              /\ NoDecoderReads(pdb_line'.resseq, 3) =>
                    residue_num_nondec_mode' = "overflow"

\* The step reads a connectivity record while a Model exists: the load goes
\* on, and a field no decoder reads is the atom counter
UnreadableConectAbsorbed ==
    ReadsLine("CONECT") /\ Len(models) > 0 =>
        /\ pc' = "loading"
        /\ Len(models'[Len(models')].connects) = Len(models[Len(models)].connects) + 1
        /\ models'[Len(models')].connects[Len(models'[Len(models')].connects)][2]
              = next_atom_number

(***************************************************************************)
(* C31.  With an owning Structure the resolver returns an integer for      *)
(* every non-empty token, mode and counter: a coordinate record aborts the *)
(* load only if a coordinate is unparsable or the residue name is          *)
(* misaligned, and an unreadable field of a coordinate or connectivity     *)
(* record is resolved by the sequential guess.                             *)
(***************************************************************************)
C31_ResolverNeverFails ==
    [][UnreadableFieldsAbsorbed /\ UnreadableConectAbsorbed]_vars

\* A second coordinate record was stored whose serial and residue number no
\* decoder reads: both were guessed
C31_Witness ==
    /\ pc = "loading"
    /\ pdb_line.kind = "ATOM"
    /\ NoDecoderReads(pdb_line.serial, 4)
    /\ NoDecoderReads(pdb_line.resseq, 3)
    /\ last_atom # NoAtom
    /\ last_atom.serial_number = 2
    /\ "guess_atom_number" \in { diags[i] : i \in 1..Len(diags) }
    /\ "guess_residue_number" \in { diags[i] : i \in 1..Len(diags) }

(***************************************************************************)
(* C32: marker lines that find nothing open.                               *)
(***************************************************************************)
\* The step reads an ENDMDL, END or CONECT line before any Model exists, or a
\* TER line before the current Model holds a Chain
MarkerOnNothingStep ==
    \/ /\ ReadsLine("ENDMDL") \/ ReadsLine("END") \/ ReadsLine("CONECT")
       /\ Len(models) = 0
    \/ /\ ReadsLine("TER")
       /\ IsTerRecord(pdb_line'.words)
       /\ Len(models) = 0 \/ Len(models[Len(models)].chains) = 0

(***************************************************************************)
(* C32.  A marker line that finds nothing open (ENDMDL, END or CONECT      *)
(* before any Model, TER before any Chain of the current Model) does not   *)
(* abort the load: the structure is left as it was and the next lines are  *)
(* read.                                                                   *)
(***************************************************************************)
C32_MarkerOnNothingAbsorbed ==
    [][MarkerOnNothingStep => pc' = "loading" /\ models' = models]_vars

(***************************************************************************)
(* C33: what a CONECT line changes.                                        *)
(***************************************************************************)
\* The step reads a CONECT line while a Model exists
ConectStep ==
    /\ ReadsLine("CONECT")
    /\ Len(models) > 0

\* The models list without the connects of its last Model
WithoutConnects(mods) == [mods EXCEPT ![Len(mods)].connects = << >>]

\* The step appends one group, of one number per field of the line, to the
\* connects of the current Model
AppendsOneGroup ==
    /\ Len(models') = Len(models)
    /\ Len(models'[Len(models)].connects) = Len(models[Len(models)].connects) + 1
    /\ SubSeq(models'[Len(models)].connects, 1, Len(models[Len(models)].connects))
          = models[Len(models)].connects
    /\ Len(models'[Len(models)].connects[Len(models'[Len(models)].connects)])
          = Len(pdb_line'.fields)

\* The step leaves the Models, but for the connects of the current one, the
\* counters and the residue mode as they were
ConectFrame ==
    /\ pc' = "loading"
    /\ WithoutConnects(models') = WithoutConnects(models)
    /\ models_by_number' = models_by_number
    /\ next_atom_number' = next_atom_number
    /\ next_residue_number' = next_residue_number
    /\ residue_num_nondec_mode' = residue_num_nondec_mode
    /\ unit_cell' = unit_cell
    /\ state' = state

\* The atom mode after the step: as it was, locked from unlocked by a field
\* that is not a decimal, or the sequential guess
ConectMode ==
    \/ atom_num_nondec_mode' = atom_num_nondec_mode
    \/ /\ atom_num_nondec_mode = "none"
       /\ \E i \in 1..Len(pdb_line'.fields) : ~PyInt(pdb_line'.fields[i], 10).ok
    \/ /\ atom_num_nondec_mode' = "overflow"
       /\ \E i \in 1..Len(pdb_line'.fields) :
             ~AtomModeApply(atom_num_nondec_mode, pdb_line'.fields[i], next_atom_number).ok

\* C33 as claimed: a CONECT line appends one group and leaves the rest,
\* both modes included, as it was
C33_Claimed ==
    [][ConectStep =>
          /\ AppendsOneGroup
          /\ ConectFrame
          /\ atom_num_nondec_mode' = atom_num_nondec_mode]_vars

(***************************************************************************)
(* C33.  A CONECT line read while a Model exists appends exactly one group *)
(* to the connects of the current Model and leaves the rest of the Models, *)
(* both counters and the residue mode unchanged; the atom mode changes     *)
(* only as the resolver changes it for a field it cannot read in the       *)
(* current mode.                                                           *)
(***************************************************************************)
C33_ConectAppendsOneGroup ==
    [][ConectStep => AppendsOneGroup /\ ConectFrame /\ ConectMode]_vars

\* A second CONECT line of a Model that holds an Atom was stored, and its
\* field left the atom mode in the sequential guess
C33_Witness ==
    /\ pc = "loading"
    /\ pdb_line.kind = "CONECT"
    /\ pdb_line.fields = << OverflowAtomKey >>
    /\ Len(models) > 0
    /\ Len(models[Len(models)].chains) > 0
    /\ Len(models[Len(models)].connects) = 2
    /\ atom_num_nondec_mode = "overflow"

(***************************************************************************)
(* C34: the first-in-chain and last-in-chain flags.                        *)
(***************************************************************************)
\* Coordinate lines of residues 1 and 2 of chains A and B
FlagLines ==
    { AtomRecord(Serial1, NameN, " ", ALA, c, q) : c \in {"A", "B"}, q \in {Seq1, Seq2} }

NextFlags ==
    \/ \E line \in FlagLines : AtomLine(line)
    \/ TerLine(TER)
    \/ ModelLine(MODEL)
    \/ EndmdlLine(ENDMDL)
    \/ EndLine(END)
    \/ EndOfInput

SpecFlags == Init /\ [][NextFlags]_vars

\* Every Chain of every Model
AllChains == { models[m].chains[c] : << m, c >> \in
                 { << m, c >> \in (1..Len(models)) \X (1..MaxLines) :
                     c <= Len(models[m].chains) } }

\* The first Residue of the Chain, and no other, has the first-in-chain flag
FirstFlagOnFirst(chain) ==
    \A i \in 1..Len(chain.residues) : chain.residues[i].is_first_in_chain <=> i = 1

\* No Residue of the Chain but the last has the last-in-chain flag
NoFlaggedLastFollowed(chain) ==
    \A i \in 1..Len(chain.residues) :
        chain.residues[i].is_final_in_chain => i = Len(chain.residues)

\* The Chain holds a Residue, and its last Residue has the last-in-chain flag
LastFlagOnLast(chain) ==
    /\ Len(chain.residues) > 0
    /\ chain.residues[Len(chain.residues)].is_final_in_chain

(***************************************************************************)
(* C34.  At every point of a load the first Residue of every Chain, and no *)
(* other, has the first-in-chain flag, and no Residue with the             *)
(* last-in-chain flag is followed by another Residue of its Chain; when    *)
(* the load has completed (END or ENDMDL of a first-model-only load, end   *)
(* of input) the last Residue of every Chain has the last-in-chain flag.   *)
(***************************************************************************)
C34_FlagsAtChainEnds ==
    /\ \A chain \in AllChains : FirstFlagOnFirst(chain) /\ NoFlaggedLastFollowed(chain)
    /\ pc = "done" => \A chain \in AllChains : LastFlagOnLast(chain)

\* A load of all models has completed with a Chain of two Residues in a
\* Model that a model-end line finalized, and a Chain of the same id in the
\* Model that the next coordinate record opened
C34_Witness ==
    /\ pc = "done"
    /\ load_all_models
    /\ Len(models) = 2
    /\ Len(models[1].chains) = 1
    /\ Len(models[1].chains[1].residues) = 2
    /\ Len(models[2].chains) = 1
    /\ models[2].chains[1].chain_id = models[1].chains[1].chain_id

(***************************************************************************)
(* C35: two tokens handed to the same hybrid decoder.                      *)
(***************************************************************************)
\* The high components and the low components of the pairs: the ends of the
\* range of k base-36 digits, and the values around 10^k
PairHighs == {0, 1, 2, 35}

PairLows(k) ==
    { 0, 1, Pow10(k) - 1, Pow10(k), Pow10(k) + 1, 2 * Pow10(k),
      IF k = 3 THEN 46655 ELSE 1679615 }

\* The well-formed tokens of k + 1 characters made of these components
PairTokens(k) ==
    { [high |-> h, low |-> l, token |-> HybridEncode(h, l, k)] :
        h \in PairHighs, l \in PairLows(k) }

\* Two tokens for the decoder of k + 1 characters
PairInputsOf(k) ==
    { [done |-> FALSE, k |-> k, first |-> p, second |-> q] :
        p \in PairTokens(k), q \in PairTokens(k) }

InitPairs == Constructed /\ nlines = 0 /\ decoded \in PairInputsOf(3) \cup PairInputsOf(4)

\* _atom_num_initial_nondecimal_functions["A0000"] called on each token
DecodeAtomPair ==
    /\ ~decoded.done
    /\ decoded.k = 4
    /\ decoded' = [decoded EXCEPT !.done = TRUE]
                     @@ [result1 |-> ChimeraDecode(decoded.first.token, 4),
                         result2 |-> ChimeraDecode(decoded.second.token, 4)]
    /\ UNCHANGED << models, models_by_number, atom_num_nondec_mode, residue_num_nondec_mode,
                    next_atom_number, next_residue_number, unit_cell, load_all_models,
                    state, pdb_line, last_atom, diags, nread, pc, nlines, output, yielded >>

\* _residue_num_initial_nondecimal_functions["A000"] called on each token
DecodeResiduePair ==
    /\ ~decoded.done
    /\ decoded.k = 3
    /\ decoded' = [decoded EXCEPT !.done = TRUE]
                     @@ [result1 |-> ChimeraDecode(decoded.first.token, 3),
                         result2 |-> ChimeraDecode(decoded.second.token, 3)]
    /\ UNCHANGED << models, models_by_number, atom_num_nondec_mode, residue_num_nondec_mode,
                    next_atom_number, next_residue_number, unit_cell, load_all_models,
                    state, pdb_line, last_atom, diags, nread, pc, nlines, output, yielded >>

NextPairs == DecodeAtomPair \/ DecodeResiduePair

SpecPairs == InitPairs /\ [][NextPairs]_vars

\* The two tokens were decoded to the same integer
SameResult ==
    /\ decoded.result1.ok
    /\ decoded.result2.ok
    /\ decoded.result1.val = decoded.result2.val

=========================================================================
